---- MODULE Spec2Model ----
(***************************************************************************)
(* Verification model of the VelvetSwap frontend:                          *)
(*   - computeSwapQuote            (src/src/lib/swap-client.ts)            *)
(*   - the faucet route POST       (src/src/lib/solana/constants.ts)       *)
(*   - ensureUserIncoAccounts      (src/src/lib/inco-account-manager.ts)   *)
(*   - the useIncoSwap hook        (src/src/hooks/useIncoSwap.ts)          *)
(*   - the page's handlePrivateSwap (src/src/app/page.tsx)                 *)
(* Each component has its own specification over the shared variables.     *)
(***************************************************************************)
EXTENDS Integers, Sequences, FiniteSets, TLC

VARIABLES
    qArgs,          \* arguments of the pending computeSwapQuote call
    qRes,           \* its result (kind "none" before the call)
    now,            \* the server clock: the last value Date.now() returned
    rateLimitMap,   \* Map<string, number>: wallet string -> last accepted timestamp
    req,            \* faucet requests: per request slot, the handler's position and locals
    accepted,       \* history: <<wallet, time, rejected calls before it>> of every call that
                    \* passed the rate limit
    rejectedSince,  \* history: wallets with a 429 since their last accepted call
    calls,          \* number of requests received so far (bounds the run)
    resp,           \* the response the faucet sent last
    accts,          \* the ledger's Inco token accounts, in creation order
    mounted,        \* which swap UI the component tree uses: "hook" (useIncoSwap) or "page"
    connected,      \* the wallet adapter has a publicKey and signTransaction
    publicKey,      \* the wallet adapter's publicKey ("" for null)
    confirmedSigs,  \* history: signatures whose confirmTransaction has returned
    swapState,      \* useIncoSwap: the SwapState
    userAccounts,   \* useIncoSwap: the cached UserIncoAccounts (empty strings for null)
    runs,           \* useIncoSwap: per invocation of executeSwap / prepareAccounts, its
                    \* position, the statuses it wrote and the external calls it started
    hookDone,       \* useIncoSwap: kind, failure message and settled value of the invocation
                    \* that returned last
    step,           \* page: SwapStep
    statusMessage,  \* page: the status line
    txSignature,    \* page: the signature shown ("" for null)
    amount,         \* page: the amount input
    complianceResult, \* page: "null", "ok" or "blocked"
    complianceFor,  \* history: the wallet the held compliance result was obtained for
    compPending,    \* page: the wallets whose compliance effect is still awaiting its check
    privacyMode,    \* page: the Hidden (TRUE) / Visible badge
    estimatedOutput, \* page: the estimate string ("" for null)
    fromToken,      \* page: symbol of the token sold
    pageRun,        \* page: the handlePrivateSwap invocation, its position and calls
    eWallet,        \* ensureUserIncoAccounts: the wallet's public key
    eFaucet,        \* ensureUserIncoAccounts: what the faucet request will yield
    eLedger,        \* ensureUserIncoAccounts: what getProgramAccounts will yield
    ePc,            \* ensureUserIncoAccounts: position
    eStatus,        \* ensureUserIncoAccounts: status messages passed to onStatusUpdate
    eOut,           \* ensureUserIncoAccounts: the outcome (returned value or thrown error)
    encAmount,      \* encryptAmount: the amount argument
    ciphertext,     \* the Buffer encryptAmount returned (empty before the call)
    txPc,           \* swapExactIn: position
    poolState,      \* swapExactIn: what fetchPoolState returned
    rootIndex,      \* swapExactIn: the local rootIndex
    compressedProof, \* swapExactIn: the local compressedProof ("" for null)
    txLog,          \* swapExactIn: the requests started, in order
    txEnv,          \* history: what the pool listing and the proof request settled with
    txOut,          \* swapExactIn: the outcome (returned transaction or thrown error)
    dHandles,       \* decryptBalances: the handles argument
    dPc,            \* decryptBalances: position
    dLog,           \* decryptBalances: the requests made (decrypt, the wallet signature)
    dResult,        \* history: what the SDK's decrypt settled with
    dOut,           \* decryptBalances: the outcome
    gWallet,        \* ensureDecryptAccess: wallet.publicKey
    gAccount,       \* ensureDecryptAccess: the account read first
    gPc,            \* grantDecryptAccess: index in GrantOrder of the call awaited
                    \* (-1 before ensureDecryptAccess runs, 0 when nothing is awaited)
    gLog,           \* grantDecryptAccess: the calls started, in order
    gSim,           \* history: what simulateTransaction resolved with
    gPda,           \* grantDecryptAccess: the local allowancePda
    gSig,           \* grantDecryptAccess: the local sig
    gOut,           \* grantDecryptAccess: the outcome
    gAccess         \* ensureDecryptAccess: the value returned ("none" before)

quoteVars == <<qArgs, qRes>>
faucetVars == <<now, rateLimitMap, req, accepted, rejectedSince, calls, resp, accts>>
hookVars == <<swapState, userAccounts, runs, hookDone>>
viewVars == <<privacyMode, estimatedOutput, fromToken>>
pageVars == <<step, statusMessage, txSignature, amount, complianceResult, complianceFor,
              compPending, pageRun, viewVars>>
uiVars == <<mounted, connected, publicKey, confirmedSigs, hookVars, pageVars>>
ensureVars == <<eWallet, eFaucet, eLedger, ePc, eStatus, eOut>>
swapTxVars == <<encAmount, ciphertext, txPc, poolState, rootIndex, compressedProof, txLog,
                txEnv, txOut>>
decryptVars == <<dHandles, dPc, dLog, dResult, dOut>>
grantVars == <<gWallet, gAccount, gPc, gLog, gSim, gPda, gSig, gOut, gAccess>>
balanceVars == <<decryptVars, grantVars>>
vars == <<quoteVars, faucetVars, uiVars, ensureVars, swapTxVars, balanceVars>>

(***************************************************************************)
(* Bounds of the model                                                     *)
(***************************************************************************)
MaxAmt == 6
MaxReserve == 3
MaxReq == 2
MaxCalls == 3
MaxAcct == 4
StartTime == 100000
MaxRuns == 2
MaxList == 3
MaxBytes == 18
MaxItems == 2
MaxHandles == 3

(***************************************************************************)
(* computeSwapQuote                                                        *)
(***************************************************************************)
BPS_DENOMINATOR == 10000
DEFAULT_FEE_BPS == 30

Abs(x) == IF x < 0 THEN -x ELSE x

\* BigInt division: the quotient is truncated toward zero (b # 0)
BigIntDiv(a, b) ==
    LET q == Abs(a) \div Abs(b)
    IN  IF (a < 0) # (b < 0) THEN -q ELSE q

\* floor division, the mathematical reading of "integer division"
FloorDiv(a, b) == IF b > 0 THEN a \div b ELSE (-a) \div (-b)

ZeroReserveMut(reserveIn, reserveOut) == reserveIn = 0 /\ reserveOut = 0
ZeroReserve(reserveIn, reserveOut) == reserveIn = 0 \/ reserveOut = 0

AmountOutRoundUp(reserveIn, reserveOut, netIn) ==
    BigIntDiv(reserveOut * netIn + reserveIn + netIn - 1, reserveIn + netIn)
AmountOutMut(reserveIn, reserveOut, netIn) ==
    BigIntDiv(reserveOut * reserveIn, reserveIn + netIn)
AmountOut(reserveIn, reserveOut, netIn) ==
    BigIntDiv(reserveOut * netIn, reserveIn + netIn)

FeeAmountMut(amountIn, feeBps) == BigIntDiv(amountIn * feeBps, 1000)
FeeAmount(amountIn, feeBps) == BigIntDiv(amountIn * feeBps, BPS_DENOMINATOR)

\* feeBpsArg is << >> when the caller omits the parameter, <<f>> otherwise
computeSwapQuote(amountIn, reserveIn, reserveOut, feeBpsArg) ==
    LET feeBps == IF feeBpsArg = << >> THEN DEFAULT_FEE_BPS ELSE feeBpsArg[1]
    IN  IF ZeroReserve(reserveIn, reserveOut)
        THEN [kind |-> "ok", amountOut |-> 0, feeAmount |-> 0]
        ELSE LET feeAmount == FeeAmount(amountIn, feeBps)
                 netIn == amountIn - feeAmount
             IN  IF reserveIn + netIn = 0
                 THEN [kind |-> "RangeError", amountOut |-> 0, feeAmount |-> 0]
                 ELSE [kind |-> "ok",
                       amountOut |-> AmountOut(reserveIn, reserveOut, netIn),
                       feeAmount |-> feeAmount]

SmallAmounts == (-MaxAmt)..MaxAmt
AmountIns == SmallAmounts \cup {167 * a : a \in SmallAmounts}
Reserves == (0..MaxReserve) \cup {500 * r : r \in 1..MaxReserve}
FeeArgs == {<< >>, <<0>>, <<30>>, <<5000>>, <<10000>>, <<20000>>, <<-30>>}

NoQuote == [kind |-> "none", amountOut |-> 0, feeAmount |-> 0]

QuoteCall ==
    /\ qRes.kind = "none"
    /\ qRes' = computeSwapQuote(qArgs.amountIn, qArgs.reserveIn, qArgs.reserveOut, qArgs.feeBps)
    /\ UNCHANGED <<qArgs, faucetVars, uiVars, ensureVars, swapTxVars, balanceVars>>


(***************************************************************************)
(* The faucet route: POST /api/faucet                                      *)
(***************************************************************************)
RATE_LIMIT_MS == 60000

ValidWallets == {"w1", "w2"}
\* "bad" is a non-empty string that is no base58 public key; "" is a missing wallet field
WalletStrs == ValidWallets \cup {"bad"}
Bodies == {"w1", "bad", ""}
Mints == {"A", "B"}
\* an account's balance handle: zero, non-zero without an allowance PDA for the
\* owner (freshly initialised, or corrupted), non-zero with the allowance PDA
HandleStates == {"zero", "nopda", "ok"}
\* how far the clock may have moved between two reads of Date.now()
ClockSteps == {0, RATE_LIMIT_MS - 1, RATE_LIMIT_MS}
ReqIds == 1..MaxReq

NoReq == [pc |-> "none", wallet |-> "", badJson |-> FALSE, healthy |-> FALSE,
          status |-> 0, ops |-> {}, tokenA |-> 0, tokenB |-> 0,
          createdA |-> FALSE, createdB |-> FALSE, mintedA |-> FALSE, mintedB |-> FALSE]

\* a read that misses the entry another request has written
LastCallStale(map, walletStr) == 0

\* rateLimitMap.get(walletStr) || 0
LastCall(map, walletStr) == IF walletStr \in DOMAIN map THEN map[walletStr] ELSE 0

RateLimitedOffByOne(t, lastCall) == t - lastCall < RATE_LIMIT_MS - 1
RateLimitedInclusive(t, lastCall) == t - lastCall <= RATE_LIMIT_MS
RateLimited(t, lastCall) == t - lastCall < RATE_LIMIT_MS

MapSetNever(map, walletStr, t) == map
MapSetEvicting(map, walletStr, t) == [k \in {walletStr} |-> t]

\* rateLimitMap.set(walletStr, now)
MapSet(map, walletStr, t) ==
    [k \in DOMAIN map \cup {walletStr} |-> IF k = walletStr THEN t ELSE map[k]]

\* wallet w holds, for each mint, an account with a non-zero handle and its allowance PDA
HealthyFor(ledger, w) ==
    \A m \in Mints :
        \E i \in 1..Len(ledger) :
            ledger[i].owner = w /\ ledger[i].mint = m /\ ledger[i].st = "ok"

\* the handler returns NextResponse.json(..., {status}) and its slot is free again
Reply(r, q, status) ==
    /\ req' = [req EXCEPT ![r] = NoReq]
    /\ resp' = [q EXCEPT !.pc = "done", !.status = status]

\* the handler is still running
Continue(r, q) ==
    /\ req' = [req EXCEPT ![r] = q]
    /\ UNCHANGED resp

\* a request reaches the handler, which awaits request.json()
ReceiveFrom(r, bodies, unparsable) ==
    /\ req[r].pc = "none"
    /\ \A s \in 1..(r - 1) : req[s].pc # "none"      \* slots are interchangeable
    /\ calls < MaxCalls
    /\ calls' = calls + 1
    /\ \E w \in bodies, bad \in unparsable :
          /\ bad => w = ""
          /\ req' = [req EXCEPT ![r] = [NoReq EXCEPT !.pc = "json", !.wallet = w,
                                                     !.badJson = bad]]
    /\ UNCHANGED <<now, rateLimitMap, accepted, rejectedSince, resp, accts, quoteVars, uiVars, ensureVars, swapTxVars, balanceVars>>

\* any JSON body, or one request.json() rejects
Receive(r) == ReceiveFrom(r, Bodies, BOOLEAN)

\* the synchronous block from the parsed body to the first ledger call:
\* required field, rate limit, timestamp write, new PublicKey(walletStr)
Validate(r) ==
    /\ req[r].pc = "json"
    /\ \E d \in ClockSteps : now' = now + d
    /\ LET q == req[r]
           w == q.wallet
       IN  IF q.badJson
           THEN /\ Reply(r, q, 500)
                /\ UNCHANGED <<rateLimitMap, accepted, rejectedSince>>
           ELSE IF w = ""
           THEN /\ Reply(r, q, 400)
                /\ UNCHANGED <<rateLimitMap, accepted, rejectedSince>>
           ELSE IF RateLimited(now', LastCall(rateLimitMap, w))
           THEN /\ Reply(r, q, 429)
                /\ rejectedSince' = rejectedSince \cup {w}
                /\ UNCHANGED <<rateLimitMap, accepted>>
           ELSE /\ rateLimitMap' = MapSet(rateLimitMap, w, now')
                /\ accepted' = accepted \cup {<<w, now', w \in rejectedSince>>}
                /\ rejectedSince' = rejectedSince \ {w}
                /\ IF w \notin ValidWallets
                   THEN Reply(r, q, 500)
                   ELSE Continue(r, [q EXCEPT !.pc = "lookup", !.ops = {"lookup"},
                                              !.healthy = HealthyFor(accts, w)])
    /\ UNCHANGED <<calls, accts, quoteVars, uiVars, ensureVars, swapTxVars, balanceVars>>

Tok(q, m) == IF m = "A" THEN q.tokenA ELSE q.tokenB
Created(q, m) == IF m = "A" THEN q.createdA ELSE q.createdB
WithTok(q, m, a) == IF m = "A" THEN [q EXCEPT !.tokenA = a] ELSE [q EXCEPT !.tokenB = a]
WithCreated(q, m, a) ==
    IF m = "A" THEN [q EXCEPT !.tokenA = a, !.createdA = TRUE]
               ELSE [q EXCEPT !.tokenB = a, !.createdB = TRUE]
WithMinted(q, m) == IF m = "A" THEN [q EXCEPT !.mintedA = TRUE] ELSE [q EXCEPT !.mintedB = TRUE]

\* accounts of wallet w for mint m that getProgramAccounts lists
OwnedBy(ledger, w, m) ==
    {i \in 1..Len(ledger) : ledger[i].owner = w /\ ledger[i].mint = m}

\* the scan keeps the last listed match; the ledger fixes no listing order
ScanPicks(ledger, w, m) ==
    IF OwnedBy(ledger, w, m) = {} THEN {0} ELSE OwnedBy(ledger, w, m)

\* where the handler continues after each block
AfterReplaceA(q) == IF ~q.createdB THEN "replaceB" ELSE "mintA"
AfterCreateB(q) == IF ~q.createdA THEN "replaceA" ELSE AfterReplaceA(q)
AfterCreateA(q) == IF q.tokenB = 0 THEN "createB" ELSE AfterCreateB(q)
AfterLookup(q) == IF q.tokenA = 0 THEN "createA" ELSE AfterCreateA(q)

\* getProgramAccounts returns (or throws) and the scan loop runs
Lookup(r) ==
    /\ req[r].pc = "lookup"
    /\ \/ Reply(r, req[r], 500)
       \/ \E a \in ScanPicks(accts, req[r].wallet, "A"),
             b \in ScanPicks(accts, req[r].wallet, "B") :
             LET q == [req[r] EXCEPT !.tokenA = a, !.tokenB = b]
             IN  Continue(r, [q EXCEPT !.pc = AfterLookup(q)])
    /\ UNCHANGED <<now, rateLimitMap, accepted, rejectedSince, calls, accts, quoteVars, uiVars, ensureVars, swapTxVars, balanceVars>>

\* initializeAccount leaves an encrypted zero: a non-zero handle without allowance PDA
NewAccount(w, m) == [mint |-> m, owner |-> w, st |-> "nopda"]

\* "if (!tokenXPubkey)": initializeAccount sent and confirmed, or a throw on the way
\* (before the transaction landed, or after it landed while confirming)
CreateAccount(r, m) ==
    /\ req[r].pc = (IF m = "A" THEN "createA" ELSE "createB")
    /\ LET q == [req[r] EXCEPT !.ops = @ \cup {"create"}]
       IN  \/ /\ Reply(r, q, 500)
              /\ UNCHANGED accts
           \/ /\ Len(accts) < MaxAcct
              /\ accts' = Append(accts, NewAccount(q.wallet, m))
              /\ \/ Reply(r, q, 500)
                 \/ LET c == WithCreated(q, m, Len(accts) + 1)
                    IN  Continue(r, [c EXCEPT !.pc = IF m = "A" THEN AfterCreateA(c)
                                                                ELSE AfterCreateB(c)])
    /\ UNCHANGED <<now, rateLimitMap, accepted, rejectedSince, calls, quoteVars, uiVars, ensureVars, swapTxVars, balanceVars>>

\* replaceCorruptedAccount: a non-zero handle without allowance PDA gets a new account
IsCorrupted(st) == st = "nopda"

ReplaceCorrupted(r, m) ==
    /\ req[r].pc = (IF m = "A" THEN "replaceA" ELSE "replaceB")
    /\ LET q == req[r]
           next(c) == IF m = "A" THEN AfterReplaceA(c) ELSE "mintA"
       IN  \/ /\ Reply(r, q, 500)
              /\ UNCHANGED accts
           \/ /\ ~IsCorrupted(accts[Tok(q, m)].st)
              /\ Continue(r, [q EXCEPT !.pc = next(q)])
              /\ UNCHANGED accts
           \/ /\ IsCorrupted(accts[Tok(q, m)].st)
              /\ Len(accts) < MaxAcct
              /\ accts' = Append(accts, NewAccount(q.wallet, m))
              /\ LET c == [WithTok(q, m, Len(accts) + 1) EXCEPT !.ops = @ \cup {"create"}]
                 IN  \/ Reply(r, c, 500)
                     \/ Continue(r, [c EXCEPT !.pc = next(c)])
    /\ UNCHANGED <<now, rateLimitMap, accepted, rejectedSince, calls, quoteVars, uiVars, ensureVars, swapTxVars, balanceVars>>

\* needsMint: zero handle, or non-zero handle without allowance PDA
NeedsMint(st) == st # "ok"

\* "if (await needsMint(tokenX))" and the mint block, whose own catch only logs
MintBlock(r, m) ==
    /\ req[r].pc = (IF m = "A" THEN "mintA" ELSE "mintB")
    /\ LET q == req[r]
           a == Tok(q, m)
           next(c) == IF m = "A" THEN Continue(r, [c EXCEPT !.pc = "mintB"])
                                 ELSE Reply(r, c, 200)
       IN  \/ /\ Reply(r, q, 500)
              /\ UNCHANGED accts
           \/ /\ ~NeedsMint(accts[a].st)
              /\ next(q)
              /\ UNCHANGED accts
           \/ /\ NeedsMint(accts[a].st)
              /\ LET c == [q EXCEPT !.ops = @ \cup {"mint"}]
                 IN  \/ /\ accts' = [accts EXCEPT ![a].st = "ok"]
                        /\ next(WithMinted(c, m))
                     \/ /\ UNCHANGED accts
                        /\ next(c)
    /\ UNCHANGED <<now, rateLimitMap, accepted, rejectedSince, calls, quoteVars, uiVars, ensureVars, swapTxVars, balanceVars>>

\* ledgers the faucet may start from: w1 holds, per mint, no account or one account
PreA == {<< >>} \cup {<<[mint |-> "A", owner |-> "w1", st |-> s]>> : s \in HandleStates}
PreB == {<< >>} \cup {<<[mint |-> "B", owner |-> "w1", st |-> s]>> : s \in HandleStates}
InitLedgers == {a \o b : a \in PreA, b \in PreB}

(***************************************************************************)
(* useIncoSwap (src/src/hooks/useIncoSwap.ts)                              *)
(* A message is <<text, detail>>: the literal text and the interpolated    *)
(* error message of a template string ("" when there is none).             *)
(***************************************************************************)
RunIds == 1..MaxRuns
FailMsgs == {"e1", "e2"}
Sigs == {"s1", "s2"}

Msg(text, detail) == <<text, detail>>

IdleState == [status |-> "idle", message |-> Msg("", ""), txSignature |-> "", error |-> ""]

\* setSwapState(prev => ({ ...prev, status, message }))
updateStatus(prev, status, message) == [prev EXCEPT !.status = status, !.message = message]

\* setSwapState({ status: 'success', message, txSignature: signature })
SwapSuccess(signature) ==
    [status |-> "success", message |-> Msg("Swap completed successfully!", ""),
     txSignature |-> signature, error |-> ""]

SwapCatchNoError(m) ==
    [status |-> "error", message |-> Msg("Swap failed", ""), txSignature |-> "", error |-> ""]

\* setSwapState({ status: 'error', message: 'Swap failed', error: error.message })
SwapCatch(m) ==
    [status |-> "error", message |-> Msg("Swap failed", ""), txSignature |-> "", error |-> m]

\* the catch blocks around ensureUserIncoAccounts
SetupCatch(prev, kind, m) ==
    updateStatus(prev, "error",
                 Msg(IF kind = "swap" THEN "Account setup failed: "
                                      ELSE "Failed to prepare accounts: ", m))

NoAccounts == [tokenA |-> "", tokenB |-> ""]
Accounts == [tokenA |-> "tokenA", tokenB |-> "tokenB"]
HasBothNever(a) == FALSE

\* !accounts?.tokenA || !accounts?.tokenB, negated
HasBoth(a) == a.tokenA # "" /\ a.tokenB # ""

\* which estimated reserve a quote was computed with as reserveIn and as reserveOut
NoReserves == [reserveIn |-> "", reserveOut |-> ""]
\* useIncoSwap 140-141: reserveIn = aToB ? estimatedReserveA : estimatedReserveB
HookReserves(aToB) ==
    [reserveIn |-> IF aToB THEN "A" ELSE "B", reserveOut |-> IF aToB THEN "B" ELSE "A"]
\* page.tsx 290-295: the literal of Reserve A first, that of Reserve B second
PageReserves(aToB) == [reserveIn |-> "A", reserveOut |-> "B"]

NoRun == [pc |-> "none", kind |-> "none", cached |-> FALSE, trail |-> << >>,
          log |-> << >>, sig |-> "", aToB |-> FALSE, quote |-> NoReserves]
NoDone == [kind |-> "none", failure |-> "", result |-> "none"]

\* the statuses an invocation wrote, repeated writes of one status counted once
Wrote(trail, s) == IF trail # << >> /\ trail[Len(trail)] = s THEN trail ELSE Append(trail, s)

SwapPcs == {"build", "blockhash", "sign", "send", "confirm"}

\* the external call executeSwap awaits at each position of its try block
HookCall(pc) ==
    CASE pc = "build" -> "swapExactIn"
      [] pc = "blockhash" -> "getLatestBlockhash"
      [] pc = "sign" -> "signTransaction"
      [] pc = "send" -> "sendRawTransaction"
      [] pc = "confirm" -> "confirmTransaction"

HookNextSendFirst(pc) ==
    CASE pc = "build" -> "blockhash"
      [] pc = "blockhash" -> "send"
      [] pc = "send" -> "sign"
      [] pc = "sign" -> "confirm"
      [] pc = "confirm" -> "none"

\* the position that follows when the awaited call returns
HookNext(pc) ==
    CASE pc = "build" -> "blockhash"
      [] pc = "blockhash" -> "sign"
      [] pc = "sign" -> "send"
      [] pc = "send" -> "confirm"
      [] pc = "confirm" -> "none"

\* the updateStatus between the awaited call's return and the next call
\* (<<"", _>> where the code writes none)
HookStatusAfter(pc) ==
    CASE pc = "build" -> <<"signing", Msg("Please sign the transaction...", "")>>
      [] pc = "sign" -> <<"sending", Msg("Sending transaction...", "")>>
      [] pc = "send" -> <<"sending", Msg("Confirming transaction...", "")>>
      [] OTHER -> <<"", Msg("", "")>>

FreeSlot(r) == runs[r].pc = "none" /\ \A s \in 1..(r - 1) : runs[s].pc # "none"

ReturnValueSignature(kind, failure, signature) ==
    IF kind = "prepare" THEN "undefined" ELSE signature

\* what the promise of an invocation settles to: prepareAccounts returns nothing,
\* executeSwap returns null from its catch blocks and the signature otherwise;
\* no statement outside a try block can throw, so the promise never rejects
ReturnValue(kind, failure, signature) ==
    IF kind = "prepare" THEN "undefined"
    ELSE IF failure # "" THEN "null"
    ELSE signature

\* the invocation in slot r returns
Finish(r, kind, failure, state) ==
    /\ runs' = [runs EXCEPT ![r] = NoRun]
    /\ hookDone' = [kind |-> kind, failure |-> failure,
                    result |-> ReturnValue(kind, failure, runs[r].sig)]
    /\ swapState' = state

\* lines 132-159: the accounts are at hand; quote, encrypt, build the transaction
EnterSwapPhase(r, run) ==
    /\ swapState' = updateStatus(swapState, "confirming", Msg("Building transaction...", ""))
    /\ runs' = [runs EXCEPT ![r] = [run EXCEPT !.pc = "build",
                                               !.quote = HookReserves(run.aToB),
                                               !.trail = Wrote(@, "confirming"),
                                               !.log = Append(@, HookCall("build"))]]
    /\ UNCHANGED hookDone

\* lines 101-130 up to the first await
executeSwap(r) ==
    /\ mounted = "hook"
    /\ FreeSlot(r)
    /\ IF ~connected
       THEN /\ swapState' = updateStatus(swapState, "error", Msg("Wallet not connected", ""))
            /\ UNCHANGED <<runs, hookDone>>
       ELSE IF ~HasBoth(userAccounts)
       THEN /\ swapState' = updateStatus(swapState, "preparing",
                                         Msg("Setting up token accounts via faucet...", ""))
            /\ \E aToB \in BOOLEAN :
                  runs' = [runs EXCEPT ![r] = [NoRun EXCEPT !.pc = "ensure", !.kind = "swap",
                                                           !.aToB = aToB,
                                                           !.trail = <<"preparing">>,
                                                           !.log = <<"ensureUserIncoAccounts">>]]
            /\ UNCHANGED hookDone
       ELSE \E aToB \in BOOLEAN :
              EnterSwapPhase(r, [NoRun EXCEPT !.kind = "swap", !.cached = TRUE,
                                              !.aToB = aToB])
    /\ UNCHANGED <<mounted, connected, publicKey, confirmedSigs, userAccounts, pageVars,
                   quoteVars, faucetVars, ensureVars, swapTxVars, balanceVars>>

\* lines 65-74 up to the await
prepareAccounts(r) ==
    /\ mounted = "hook"
    /\ FreeSlot(r)
    /\ IF ~connected
       THEN /\ swapState' = updateStatus(swapState, "error", Msg("Wallet not connected", ""))
            /\ UNCHANGED runs
       ELSE /\ swapState' = updateStatus(swapState, "preparing",
                                         Msg("Setting up token accounts via faucet...", ""))
            /\ runs' = [runs EXCEPT ![r] = [NoRun EXCEPT !.pc = "ensure", !.kind = "prepare",
                                                         !.trail = <<"preparing">>,
                                                         !.log = <<"ensureUserIncoAccounts">>]]
    /\ UNCHANGED <<mounted, connected, publicKey, confirmedSigs, userAccounts, hookDone, pageVars,
                   quoteVars, faucetVars, ensureVars, swapTxVars, balanceVars>>

\* ensureUserIncoAccounts returned its accounts to the invocation in slot r
AfterEnsure(r, created) ==
    /\ userAccounts' = Accounts
    /\ IF runs[r].kind = "swap"
       THEN EnterSwapPhase(r, runs[r])
       ELSE Finish(r, "prepare", "",
                   updateStatus(swapState, "idle",
                                Msg(IF created THEN "Inco accounts created successfully"
                                               ELSE "Inco accounts ready", "")))

\* the faucet request of ensureUserIncoAccounts settles
HookEnsure(r) ==
    /\ runs[r].pc = "ensure"
    /\ \/ \E created \in BOOLEAN : AfterEnsure(r, created)
       \/ /\ \E text \in {"Faucet: error", "Faucet unavailable, checking local accounts..."} :
                swapState' = updateStatus(swapState, "preparing", Msg(text, ""))
          /\ runs' = [runs EXCEPT ![r].pc = "fallback", ![r].trail = Wrote(@, "preparing")]
          /\ UNCHANGED <<userAccounts, hookDone>>
    /\ UNCHANGED <<mounted, connected, publicKey, confirmedSigs, pageVars,
                   quoteVars, faucetVars, ensureVars, swapTxVars, balanceVars>>

\* the fallback read of ensureUserIncoAccounts settles
HookFallback(r) ==
    /\ runs[r].pc = "fallback"
    /\ \/ AfterEnsure(r, FALSE)
       \/ /\ \E m \in FailMsgs :
                Finish(r, runs[r].kind, m, SetupCatch(swapState, runs[r].kind, m))
          /\ UNCHANGED userAccounts
    /\ UNCHANGED <<mounted, connected, publicKey, confirmedSigs, pageVars,
                   quoteVars, faucetVars, ensureVars, swapTxVars, balanceVars>>

\* lines 159-216: the call awaited by the invocation in slot r settles
HookStep(r) ==
    /\ runs[r].pc \in SwapPcs
    /\ LET run == runs[r]
           after == HookStatusAfter(run.pc)
       IN  \/ /\ HookNext(run.pc) = "none"
              /\ Finish(r, "swap", "", SwapSuccess(run.sig))
              /\ confirmedSigs' = confirmedSigs \cup {run.sig}
           \/ /\ HookNext(run.pc) # "none"
              /\ \E sig \in (IF run.pc = "send" THEN Sigs ELSE {run.sig}) :
                    runs' = [runs EXCEPT ![r] =
                               [run EXCEPT !.pc = HookNext(run.pc),
                                           !.sig = sig,
                                           !.trail = IF after[1] = "" THEN @
                                                     ELSE Wrote(@, after[1]),
                                           !.log = Append(@, HookCall(HookNext(run.pc)))]]
              /\ swapState' = IF after[1] = "" THEN swapState
                              ELSE updateStatus(swapState, after[1], after[2])
              /\ UNCHANGED <<hookDone, confirmedSigs>>
           \/ /\ \E m \in FailMsgs : Finish(r, "swap", m, SwapCatch(m))
              /\ UNCHANGED confirmedSigs
    /\ UNCHANGED <<mounted, connected, publicKey, userAccounts, pageVars,
                   quoteVars, faucetVars, ensureVars, swapTxVars, balanceVars>>

\* lines 219-221
reset ==
    /\ mounted = "hook"
    /\ swapState' = IdleState
    /\ UNCHANGED <<mounted, connected, publicKey, confirmedSigs, userAccounts, runs, hookDone, pageVars,
                   quoteVars, faucetVars, ensureVars, swapTxVars, balanceVars>>

(***************************************************************************)
(* The wallet adapter, shared by both UIs                                  *)
(***************************************************************************)
Wallets == {"W1", "W2"}

\* the wallet connects, disconnects or switches to another account; on the
\* page the publicKey effect (page.tsx 146-163) clears the result at once when
\* there is no key, and otherwise starts a compliance check for the new key
WalletChange(k) ==
    /\ k # publicKey
    /\ publicKey' = k
    /\ connected' = (k # "")
    /\ IF mounted = "page"
       THEN IF k = ""
            THEN /\ complianceResult' = "null"
                 /\ complianceFor' = ""
                 /\ UNCHANGED compPending
            ELSE /\ compPending' = compPending \cup {k}
                 /\ UNCHANGED <<complianceResult, complianceFor>>
       ELSE UNCHANGED <<complianceResult, complianceFor, compPending>>
    /\ UNCHANGED <<mounted, confirmedSigs, hookVars, step, statusMessage, txSignature,
                   amount, pageRun, viewVars, quoteVars, faucetVars, ensureVars, swapTxVars, balanceVars>>

(***************************************************************************)
(* PrivateSwapInterface (src/src/app/page.tsx)                             *)
(***************************************************************************)
Amounts == {"", "0", "1"}
\* amount && parseFloat(amount) > 0
AmountValid(a) == a = "1"

NoMsg == Msg("", "")
NoPageRun == [pc |-> "none", log |-> << >>, sig |-> "", wallet |-> "", authFor |-> "",
              aToB |-> FALSE, quote |-> NoReserves]

isProcessing == step \notin {"idle", "complete", "error"}
canSwap == connected /\ AmountValid(amount) /\ ~isProcessing

\* the external call handlePrivateSwap (through signAndSend) awaits at each position
PageCall(pc) ==
    CASE pc = "compliance" -> "checkAddressCompliance"
      [] pc = "ensure" -> "ensureUserIncoAccounts"
      [] pc = "build" -> "swapExactIn"
      [] pc = "blockhash" -> "getLatestBlockhash"
      [] pc = "sign" -> "signTransaction"
      [] pc = "send" -> "sendRawTransaction"
      [] pc = "confirm" -> "confirmTransaction"

\* the position that follows when the awaited call returns
PageNext(pc) ==
    CASE pc = "compliance" -> "ensure"
      [] pc = "ensure" -> "build"
      [] pc = "build" -> "blockhash"
      [] pc = "blockhash" -> "sign"
      [] pc = "sign" -> "send"
      [] pc = "send" -> "confirm"
      [] pc = "confirm" -> "none"

\* the check a compliance effect started for wallet w settles (page.tsx 152-160)
checkCompliance(w) ==
    /\ mounted = "page"
    /\ w \in compPending
    /\ compPending' = compPending \ {w}
    /\ \/ /\ \E res \in {"ok", "blocked"} : complianceResult' = res
          /\ complianceFor' = w
       \/ UNCHANGED <<complianceResult, complianceFor>>
    /\ UNCHANGED <<mounted, connected, publicKey, confirmedSigs, hookVars, step,
                   statusMessage, txSignature, amount, pageRun, viewVars,
                   quoteVars, faucetVars, ensureVars, swapTxVars, balanceVars>>

\* the estimate effect (page.tsx 211-222), with toFixed applied
EstimateOf(a, from) ==
    IF ~AmountValid(a) THEN ""
    ELSE IF from = "SOL" THEN "149.550000" ELSE "0.006647"

\* what the 'You Receive' field renders (page.tsx 411-421): the estimate behind
\* a tilde, with an EyeOff icon beside it in privacy mode, or the grey 0.0
YouReceive ==
    IF estimatedOutput # ""
    THEN [text |-> <<"~", estimatedOutput>>, eyeOff |-> privacyMode]
    ELSE [text |-> <<"", "0.0">>, eyeOff |-> FALSE]

\* the Hidden/Visible badge
togglePrivacy ==
    /\ mounted = "page"
    /\ privacyMode' = ~privacyMode
    /\ UNCHANGED <<mounted, connected, publicKey, confirmedSigs, hookVars, step,
                   statusMessage, txSignature, amount, complianceResult, complianceFor,
                   compPending, pageRun, estimatedOutput, fromToken,
                   quoteVars, faucetVars, ensureVars, swapTxVars, balanceVars>>

\* the swap arrow, disabled while processing; the estimate effect follows
handleSwapTokens ==
    /\ mounted = "page"
    /\ ~isProcessing
    /\ fromToken' = (IF fromToken = "SOL" THEN "USDC" ELSE "SOL")
    /\ estimatedOutput' = EstimateOf(amount, fromToken')
    /\ UNCHANGED <<mounted, connected, publicKey, confirmedSigs, hookVars, step,
                   statusMessage, txSignature, amount, complianceResult, complianceFor,
                   compPending, pageRun, privacyMode, quoteVars, faucetVars, ensureVars, swapTxVars, balanceVars>>

\* the amount input, disabled while processing
setAmount(a) ==
    /\ mounted = "page"
    /\ ~isProcessing
    /\ a # amount
    /\ amount' = a
    /\ estimatedOutput' = EstimateOf(a, fromToken)
    /\ UNCHANGED <<mounted, connected, publicKey, confirmedSigs, hookVars, step,
                   statusMessage, txSignature, complianceResult, complianceFor, compPending,
                   pageRun, privacyMode, fromToken, quoteVars, faucetVars, ensureVars, swapTxVars, balanceVars>>

IsCompliantAlways(res) == TRUE

\* result.isCompliant of a held or fetched ComplianceResult
IsCompliant(res) == res = "ok"

\* the catch block of handlePrivateSwap
PageCatch(m) ==
    /\ step' = "error"
    /\ statusMessage' = Msg("Swap failed: ", m)
    /\ pageRun' = NoPageRun

\* the page goes on to ensureUserIncoAccounts (page.tsx 270-277) for wallet w,
\* let through by a compliance result obtained for wallet by
PageCallEnsure(log, w, by) ==
    /\ step' = "authenticating"
    /\ statusMessage' = Msg("Setting up token accounts via faucet...", "")
    /\ pageRun' = [NoPageRun EXCEPT !.pc = "ensure", !.log = Append(log, PageCall("ensure")),
                                     !.wallet = w, !.authFor = by]

\* a click on the swap button, enabled while canSwap: lines 242-268 up to the first await
handlePrivateSwap ==
    /\ mounted = "page"
    /\ canSwap
    /\ IF ~connected
       THEN /\ statusMessage' = Msg("Please connect your wallet", "")
            /\ UNCHANGED <<step, pageRun>>
       ELSE IF ~AmountValid(amount)
       THEN /\ statusMessage' = Msg("Please enter a valid amount", "")
            /\ UNCHANGED <<step, pageRun>>
       ELSE IF complianceResult = "null"
       THEN /\ step' = "authenticating"
            /\ statusMessage' = Msg("Checking compliance with Range Protocol...", "")
            /\ pageRun' = [NoPageRun EXCEPT !.pc = "compliance",
                                             !.log = <<PageCall("compliance")>>,
                                             !.wallet = publicKey]
       ELSE IF ~IsCompliant(complianceResult)
       THEN PageCatch("Compliance check failed")
       ELSE PageCallEnsure(<< >>, publicKey, complianceFor)
    /\ UNCHANGED <<mounted, connected, publicKey, confirmedSigs, hookVars, txSignature,
                   amount, complianceResult, complianceFor, compPending, viewVars,
                   quoteVars, faucetVars, ensureVars, swapTxVars, balanceVars>>

\* the call handlePrivateSwap awaits settles (page.tsx 261-330, signAndSend 228-239)
PageStep ==
    /\ pageRun.pc # "none"
    /\ LET pc == pageRun.pc
       IN  \/ /\ pc = "compliance"
              /\ \E res \in {"ok", "blocked"} :
                    /\ complianceResult' = res
                    /\ complianceFor' = pageRun.wallet
                    /\ IF ~IsCompliant(res)
                       THEN PageCatch("Compliance check failed")
                       ELSE PageCallEnsure(pageRun.log, pageRun.wallet, pageRun.wallet)
              /\ UNCHANGED <<txSignature, confirmedSigs>>
           \/ /\ pc = "ensure"
              /\ step' = "swapping"
              /\ statusMessage' = Msg("Executing confidential swap with token transfers...", "")
              /\ pageRun' = [pageRun EXCEPT !.pc = PageNext(pc),
                                            !.aToB = (fromToken = "SOL"),
                                            !.quote = PageReserves(fromToken = "SOL"),
                                            !.log = Append(@, PageCall(PageNext(pc)))]
              /\ UNCHANGED <<txSignature, confirmedSigs, complianceResult, complianceFor>>
           \/ /\ pc \in {"build", "blockhash", "sign", "send"}
              /\ \E sig \in (IF pc = "send" THEN Sigs ELSE {pageRun.sig}) :
                    pageRun' = [pageRun EXCEPT !.pc = PageNext(pc),
                                               !.log = Append(@, PageCall(PageNext(pc))),
                                               !.sig = sig]
              /\ UNCHANGED <<step, statusMessage, txSignature, confirmedSigs,
                             complianceResult, complianceFor>>
           \/ /\ pc = "confirm"
              /\ txSignature' = pageRun.sig
              /\ step' = "complete"
              /\ statusMessage' = Msg("Private swap completed! Tokens transferred.", "")
              /\ confirmedSigs' = confirmedSigs \cup {pageRun.sig}
              /\ pageRun' = NoPageRun
              /\ UNCHANGED <<complianceResult, complianceFor>>
           \/ /\ \E m \in FailMsgs : PageCatch(m)
              /\ UNCHANGED <<txSignature, confirmedSigs, complianceResult, complianceFor>>
    /\ UNCHANGED <<mounted, connected, publicKey, hookVars, amount, compPending, viewVars,
                   quoteVars, faucetVars, ensureVars, swapTxVars, balanceVars>>

\* the Reset button, rendered with the status line once step is complete or error
handleReset ==
    /\ mounted = "page"
    /\ step \in {"complete", "error"}
    /\ statusMessage # NoMsg
    /\ step' = "idle"
    /\ statusMessage' = NoMsg
    /\ txSignature' = ""
    /\ amount' = ""
    /\ estimatedOutput' = ""
    /\ UNCHANGED <<mounted, connected, publicKey, confirmedSigs, hookVars, complianceResult,
                   complianceFor, compPending, pageRun, privacyMode, fromToken,
                   quoteVars, faucetVars, ensureVars, swapTxVars, balanceVars>>

InitUIIdle ==
    /\ mounted = "hook"
    /\ connected = FALSE
    /\ publicKey = ""
    /\ confirmedSigs = {}
    /\ swapState = IdleState
    /\ userAccounts = NoAccounts
    /\ runs = [r \in RunIds |-> NoRun]
    /\ hookDone = NoDone
    /\ step = "idle"
    /\ statusMessage = NoMsg
    /\ txSignature = ""
    /\ amount = ""
    /\ complianceResult = "null"
    /\ complianceFor = ""
    /\ compPending = {}
    /\ privacyMode = TRUE
    /\ estimatedOutput = ""
    /\ fromToken = "SOL"
    /\ pageRun = NoPageRun

(***************************************************************************)
(* ensureUserIncoAccounts and findUserIncoAccounts                         *)
(* (src/src/lib/inco-account-manager.ts 41-87, 133-178)                    *)
(***************************************************************************)
\* the mints an Inco account may be of: INCO_MINT_A, INCO_MINT_B, any other
AccountMints == {"A", "B", "X"}
Owners == {"me", "other"}
Pubkey(i) == "P" \o ToString(i)

\* what getProgramAccounts may list: at most MaxList accounts of the program,
\* each with a valid or foreign discriminator, a mint and an owner
AccountKinds == [disc : BOOLEAN, mint : AccountMints, owner : Owners]
ListingsOf(n) ==
    {[i \in 1..n |-> [pubkey |-> Pubkey(i), disc |-> f[i].disc, mint |-> f[i].mint,
                      owner |-> f[i].owner]] : f \in [1..n -> AccountKinds]}
Listings == UNION {ListingsOf(n) : n \in 0..MaxList}
Ledgers == {[kind |-> "fail", accounts |-> << >>]}
           \cup {[kind |-> "ok", accounts |-> l] : l \in Listings}

\* what the faucet request may yield: fetch rejects ("network"), the body is
\* not JSON ("nonjson"), or a JSON body of any status code
FaucetBodies ==
    [kind : {"json"}, success : BOOLEAN, tokenA : {"", "bad", "FA"},
     tokenB : {"", "bad", "FB"}, mintedA : BOOLEAN, mintedB : BOOLEAN]
NoBody(kind) == [kind |-> kind, success |-> FALSE, tokenA |-> "", tokenB |-> "",
                 mintedA |-> FALSE, mintedB |-> FALSE]
FaucetOutcomes == {NoBody("network"), NoBody("nonjson")} \cup FaucetBodies

\* new PublicKey(s) accepts s
ValidKey(s) == s \notin {"", "bad"}

NoOut == [kind |-> "none", tokenA |-> "", tokenB |-> "", created |-> FALSE, message |-> ""]
Returned(tokenA, tokenB, created) ==
    [kind |-> "return", tokenA |-> tokenA, tokenB |-> tokenB, created |-> created,
     message |-> ""]
Thrown(message) ==
    [kind |-> "throw", tokenA |-> "", tokenB |-> "", created |-> FALSE, message |-> message]

OwnerEqualsAny(owner, walletPubkey) == TRUE

\* owner.equals(walletPubkey)
OwnerEquals(owner, walletPubkey) == owner = walletPubkey

\* the loop of findUserIncoAccounts from position i on, found being { tokenA, tokenB }
RECURSIVE ScanAccounts(_, _, _, _)
ScanAccounts(accounts, walletPubkey, i, found) ==
    IF i > Len(accounts) THEN found
    ELSE LET a == accounts[i]
         IN  IF ~a.disc THEN ScanAccounts(accounts, walletPubkey, i + 1, found)
             ELSE IF ~OwnerEquals(a.owner, walletPubkey)
             THEN ScanAccounts(accounts, walletPubkey, i + 1, found)
             ELSE IF a.mint = "A"
             THEN ScanAccounts(accounts, walletPubkey, i + 1,
                               [found EXCEPT !.tokenA = a.pubkey])
             ELSE IF a.mint = "B"
             THEN ScanAccounts(accounts, walletPubkey, i + 1,
                               [found EXCEPT !.tokenB = a.pubkey])
             ELSE ScanAccounts(accounts, walletPubkey, i + 1, found)

findUserIncoAccounts(accounts, walletPubkey) ==
    ScanAccounts(accounts, walletPubkey, 1, NoAccounts)

\* lines 144-169: the faucet request settles
EnsureFetch ==
    /\ ePc = "fetch"
    /\ LET result == eFaucet
           said == Append(eStatus, "Setting up token accounts via faucet...")
       IN  IF result.kind = "json" /\ result.success /\ result.tokenA # ""
              /\ result.tokenB # ""
           THEN LET told == Append(said, IF result.mintedA \/ result.mintedB
                                         THEN "Accounts created & funded"
                                         ELSE "Accounts ready")
                IN  IF ValidKey(result.tokenA) /\ ValidKey(result.tokenB)
                    THEN /\ eStatus' = told
                         /\ eOut' = Returned(result.tokenA, result.tokenB,
                                             result.mintedA \/ result.mintedB)
                         /\ ePc' = "done"
                    ELSE /\ eStatus' = Append(told,
                                              "Faucet unavailable, checking local accounts...")
                         /\ ePc' = "fallback"
                         /\ UNCHANGED eOut
           ELSE /\ eStatus' = Append(said, IF result.kind = "json" THEN "Faucet: error"
                                           ELSE "Faucet unavailable, checking local accounts...")
                /\ ePc' = "fallback"
                /\ UNCHANGED eOut
    /\ UNCHANGED <<eWallet, eFaucet, eLedger, quoteVars, faucetVars, uiVars, swapTxVars, balanceVars>>

\* lines 171-177: the fallback read settles
EnsureFallback ==
    /\ ePc = "fallback"
    /\ ePc' = "done"
    /\ IF eLedger.kind = "fail"
       THEN eOut' = Thrown("getProgramAccounts failed")
       ELSE LET accounts == findUserIncoAccounts(eLedger.accounts, eWallet)
            IN  IF accounts.tokenA # "" /\ accounts.tokenB # ""
                THEN eOut' = Returned(accounts.tokenA, accounts.tokenB, FALSE)
                ELSE eOut' = Thrown("No token accounts found and faucet is unavailable.")
    /\ UNCHANGED <<eWallet, eFaucet, eLedger, eStatus, quoteVars, faucetVars, uiVars, swapTxVars, balanceVars>>

(***************************************************************************)
(* encryptAmount and swapExactIn (src/src/lib/swap-client.ts)              *)
(* A non-negative bigint is the sequence of its bytes, least significant   *)
(* first; high zero bytes do not change the value.                         *)
(***************************************************************************)
ByteSamples == {0, 1, 255}
\* the amounts passed in: at most two non-zero bytes anywhere in MaxBytes bytes
BigInts ==
    {[k \in 1..MaxBytes |-> IF k = i THEN x ELSE IF k = j THEN y ELSE 0] :
        i \in 1..MaxBytes, j \in 1..MaxBytes, x \in ByteSamples, y \in ByteSamples}

Byte(a, k) == IF k \in 1..Len(a) THEN a[k] ELSE 0
Bit(x, i) == (x \div (2 ^ i)) % 2
RECURSIVE AndBits(_, _, _)
AndBits(x, y, i) ==
    IF i > 7 THEN 0 ELSE Bit(x, i) * Bit(y, i) * (2 ^ i) + AndBits(x, y, i + 1)
\* a & m, for non-negative operands
BigAnd(a, m) == [k \in 1..Len(m) |-> AndBits(Byte(a, k), m[k], 0)]
\* a >> bits, for a multiple of 8 bits
ShiftRight(a, bits) ==
    LET drop == bits \div 8
    IN  [k \in 1..(IF Len(a) > drop THEN Len(a) - drop ELSE 0) |-> a[k + drop]]
\* BigInt('0xFFFFFFFFFFFFFFFF')
MASK64 == [k \in 1..8 |-> 255]
\* Buffer.alloc(size)
alloc(size) == [k \in 1..size |-> 0]
\* buf.writeBigUInt64LE(value, offset), for value < 2^64
writeBigUInt64LE(buf, value, offset) ==
    [k \in 1..Len(buf) |->
        IF k > offset /\ k <= offset + 8 THEN Byte(value, k - offset) ELSE buf[k]]

Lo(amt) == BigAnd(amt, MASK64)
HiNoShift(amt) == BigAnd(amt, MASK64)
Hi(amt) == BigAnd(ShiftRight(amt, 64), MASK64)
EncryptAmount(amt) ==
    writeBigUInt64LE(writeBigUInt64LE(alloc(16), Lo(amt), 0), Hi(amt), 8)

NoCipher == << >>

\* encryptAmount(amount) (swap-client.ts 495-508)
encryptAmount ==
    /\ txPc = "amount"
    /\ ciphertext' = EncryptAmount(encAmount)
    /\ txPc' = "idle"
    /\ UNCHANGED <<encAmount, poolState, rootIndex, compressedProof, txLog, txEnv, txOut,
                   quoteVars, faucetVars, uiVars, ensureVars, balanceVars>>

\* the compressed accounts getCompressedAccountsByOwner lists: the address ("" when the
\* account has none) and whether new PublicKey accepts its treeInfo.tree and .queue
PoolAddress == "pool"
PoolItems == [address : {PoolAddress, "other", ""}, tree : {"ok", "unusable"}]
RECURSIVE ItemLists(_)
ItemLists(n) ==
    IF n = 0 THEN {<< >>}
    ELSE ItemLists(n - 1) \cup {Append(l, i) : l \in {m \in ItemLists(n - 1) : Len(m) = n - 1},
                                               i \in PoolItems}
NoRpc == [kind |-> "none", items |-> << >>]
PoolRpcOutcomes ==
    {[kind |-> "reject", items |-> << >>]} \cup {[kind |-> "ok", items |-> l] : l \in ItemLists(MaxItems)}

\* accounts.items.find(acc => acc.address && ...equals(poolAddress)): the index, 0 for undefined
RECURSIVE FindFrom(_, _)
FindFrom(items, k) ==
    IF k > Len(items) THEN 0
    ELSE IF items[k].address # "" /\ items[k].address = PoolAddress THEN k
    ELSE FindFrom(items, k + 1)
FindPool(items) == FindFrom(items, 1)

NullPool == [kind |-> "null", tree |-> ""]
\* fetchPoolState (222-284): null when the listing fails, holds no account at the pool
\* address, or the account's tree info is rejected by new PublicKey (all inside the try)
fetchPoolState(rpc) ==
    IF rpc.kind = "reject" THEN NullPool
    ELSE IF FindPool(rpc.items) = 0 THEN NullPool
    ELSE IF rpc.items[FindPool(rpc.items)].tree # "ok" THEN NullPool
    ELSE [kind |-> "state", tree |-> rpc.items[FindPool(rpc.items)].tree]

\* what getValidityProofV0 settles with
NoProof == [kind |-> "none", message |-> "", rootIndices |-> << >>, compressedProof |-> ""]
ProofOutcomes ==
    {[kind |-> "reject", message |-> m, rootIndices |-> << >>, compressedProof |-> ""] :
        m \in FailMsgs}
    \cup {[kind |-> "null", message |-> "", rootIndices |-> << >>, compressedProof |-> ""]}
    \cup {[kind |-> "result", message |-> "", rootIndices |-> ri, compressedProof |-> cp] :
            ri \in {<< >>, <<0>>, <<7>>}, cp \in {"", "proof"}}

\* formatValidityProof (126-138)
formatValidityProof(proof, proveByIndex) ==
    IF proveByIndex \/ proof = "" THEN "None" ELSE "Some"

TxNone == [kind |-> "none", message |-> Msg("", ""), rootIndex |-> 0, validityProof |-> "",
           amountInCiphertext |-> NoCipher]
TxThrown(message) == [TxNone EXCEPT !.kind = "throw", !.message = message]
TxReturned(ri, vp, ct) ==
    [TxNone EXCEPT !.kind = "tx", !.rootIndex = ri, !.validityProof = vp,
                   !.amountInCiphertext = ct]

\* swapExactIn is called with the ciphertexts (289-304)
swapExactIn ==
    /\ txPc = "idle"
    /\ ciphertext # NoCipher
    /\ txPc' = "pool"
    /\ txLog' = <<"getCompressedAccountsByOwner">>
    /\ UNCHANGED <<encAmount, ciphertext, poolState, rootIndex, compressedProof, txEnv, txOut,
                   quoteVars, faucetVars, uiVars, ensureVars, balanceVars>>

\* fetchPoolState settles; the pool check and the proof request (304-341)
PoolSettles ==
    /\ txPc = "pool"
    /\ \E rpc \in PoolRpcOutcomes :
          LET ps == fetchPoolState(rpc)
          IN  /\ txEnv' = [txEnv EXCEPT !.pool = rpc]
              /\ poolState' = ps
              /\ IF ps = NullPool
                 THEN /\ txOut' = TxThrown(Msg("Pool not initialized. Please initialize pool first.", ""))
                      /\ txPc' = "done"
                      /\ UNCHANGED txLog
                 ELSE /\ txPc' = "proof"
                      /\ txLog' = Append(txLog, "getValidityProofV0")
                      /\ UNCHANGED txOut
    /\ UNCHANGED <<encAmount, ciphertext, rootIndex, compressedProof,
                   quoteVars, faucetVars, uiVars, ensureVars, balanceVars>>

\* a catch that went on with the defaults
ProofCatchFallback(message) ==
    /\ txPc' = "build"
    /\ txLog' = Append(txLog, "instruction")
    /\ UNCHANGED <<rootIndex, compressedProof, txOut>>

\* catch (proofError) (354-358)
ProofCatch(message) ==
    /\ txOut' = TxThrown(Msg("Cannot get validity proof: ", message))
    /\ txPc' = "done"
    /\ UNCHANGED <<rootIndex, compressedProof, txLog>>

\* getValidityProofV0 settles; accounts are packed and the instruction requested (338-412)
ProofSettles ==
    /\ txPc = "proof"
    /\ \E pr \in ProofOutcomes :
          /\ txEnv' = [txEnv EXCEPT !.proof = pr]
          /\ IF pr.kind = "reject"
             THEN ProofCatch(pr.message)
             ELSE /\ IF pr.kind = "result"
                     THEN /\ rootIndex' = (IF Len(pr.rootIndices) > 0 THEN pr.rootIndices[1] ELSE 0)
                          /\ compressedProof' = pr.compressedProof
                     ELSE UNCHANGED <<rootIndex, compressedProof>>
                  /\ txPc' = "build"
                  /\ txLog' = Append(txLog, "instruction")
                  /\ UNCHANGED txOut
    /\ UNCHANGED <<encAmount, ciphertext, poolState, quoteVars, faucetVars, uiVars, ensureVars, balanceVars>>

\* program.methods.swapExactIn(...).instruction() settles (396-418)
BuildSettles ==
    /\ txPc = "build"
    /\ \/ txOut' = TxReturned(rootIndex, formatValidityProof(compressedProof, TRUE), ciphertext)
       \/ \E m \in FailMsgs : txOut' = TxThrown(Msg(m, ""))
    /\ txPc' = "done"
    /\ UNCHANGED <<encAmount, ciphertext, poolState, rootIndex, compressedProof, txLog, txEnv,
                   quoteVars, faucetVars, uiVars, ensureVars, balanceVars>>

InitSwapTxIdle ==
    /\ encAmount = << >>
    /\ ciphertext = NoCipher
    /\ txPc = "done"
    /\ poolState = NullPool
    /\ rootIndex = 0
    /\ compressedProof = ""
    /\ txLog = << >>
    /\ txEnv = [pool |-> NoRpc, proof |-> NoProof]
    /\ txOut = TxNone

(***************************************************************************)
(* decryptBalances (src/src/lib/inco-account-manager.ts)                   *)
(***************************************************************************)
Handles == {"0", "h1", "h2"}
Plaintexts == {"0", "5", "7"}
RECURSIVE SeqsUpTo(_, _)
SeqsUpTo(S, n) ==
    IF n = 0 THEN {<< >>}
    ELSE SeqsUpTo(S, n - 1)
           \cup {Append(l, x) : l \in {m \in SeqsUpTo(S, n - 1) : Len(m) = n - 1}, x \in S}
SeqsOfLen(S, n) == {l \in SeqsUpTo(S, n) : Len(l) = n}

IsValidHandle(h) == h # "0"
\* handles.filter(h => h !== '0')
ValidHandlesOf(handles) == SelectSeq(handles, IsValidHandle)

\* a map that hands the plaintexts out to the first positions
MapBackCompact(handles, plaintexts) ==
    [k \in 1..Len(handles) |-> IF k <= Len(plaintexts) THEN plaintexts[k] ELSE "0"]

\* handles.map(h => ...) with the running validIdx (762-768): at a non-zero handle
\* validIdx is the number of non-zero handles before it
MapBack(handles, plaintexts) ==
    [k \in 1..Len(handles) |->
        IF handles[k] = "0" THEN "0"
        ELSE LET validIdx == Len(ValidHandlesOf(SubSeq(handles, 1, k - 1)))
             IN  IF validIdx < Len(plaintexts) /\ plaintexts[validIdx + 1] # ""
                 THEN plaintexts[validIdx + 1]
                 ELSE "0"]

NoDecrypt == [kind |-> "none", plaintexts |-> << >>, message |-> ""]
\* what decrypt(validHandles, {address, signMessage}) settles with: it rejects, or it
\* resolves with one plaintext per handle passed
DecryptOutcomes(valid) ==
    {[kind |-> "reject", plaintexts |-> << >>, message |-> m] : m \in FailMsgs}
    \cup {[kind |-> "ok", plaintexts |-> p, message |-> ""] : p \in SeqsOfLen(Plaintexts \ {"0"}, Len(valid))}
    \cup {[kind |-> "ok", plaintexts |-> [k \in 1..Len(valid) |-> "0"], message |-> ""]}

NoBalances == [kind |-> "none", values |-> << >>, message |-> Msg("", "")]

\* decryptBalances up to its first await (741-759)
decryptBalances ==
    /\ dPc = "call"
    /\ IF Len(ValidHandlesOf(dHandles)) = 0
       THEN /\ dOut' = [NoBalances EXCEPT !.kind = "return",
                                          !.values = [k \in 1..Len(dHandles) |-> "0"]]
            /\ dPc' = "done"
            /\ UNCHANGED dLog
       ELSE /\ dPc' = "decrypt"
            /\ dLog' = <<"decrypt", "signMessage">>
            /\ UNCHANGED dOut
    /\ UNCHANGED <<dHandles, dResult, grantVars,
                   quoteVars, faucetVars, uiVars, ensureVars, swapTxVars>>

\* the SDK's decrypt settles (756-772)
DecryptSettles ==
    /\ dPc = "decrypt"
    /\ \E res \in DecryptOutcomes(ValidHandlesOf(dHandles)) :
          /\ dResult' = res
          /\ dOut' = IF res.kind = "reject"
                     THEN [NoBalances EXCEPT !.kind = "throw",
                              !.message = Msg("Balance decryption failed: ", res.message)]
                     ELSE [NoBalances EXCEPT !.kind = "return",
                              !.values = MapBack(dHandles, res.plaintexts)]
    /\ dPc' = "done"
    /\ UNCHANGED <<dHandles, dLog, grantVars,
                   quoteVars, faucetVars, uiVars, ensureVars, swapTxVars>>

InitDecryptIdle ==
    /\ dHandles = << >>
    /\ dPc = "done"
    /\ dLog = << >>
    /\ dResult = NoDecrypt
    /\ dOut = NoBalances

(***************************************************************************)
(* ensureDecryptAccess and grantDecryptAccess                              *)
(* (src/src/lib/inco-account-manager.ts).  A handle is "0" or a non-zero   *)
(* value; an allowance PDA is the pair of seeds it is derived from.        *)
(***************************************************************************)
HandleValues == {"0", "5", "7"}
\* getAllowancePda(handle, allowedAddress) (815-826)
getAllowancePda(handle, allowedAddress) == <<handle, allowedAddress>>
NoPda == <<"", "">>

\* the account ensureDecryptAccess reads: missing, or its handle and whether the
\* allowance PDA of that handle exists for the wallet
NoAccountInfo == [exists |-> FALSE, handle |-> "0", pda |-> FALSE]
AccountInfos ==
    {NoAccountInfo} \cup [exists : {TRUE}, handle : HandleValues, pda : BOOLEAN]

\* the awaited calls of grantDecryptAccess, in program order (896-995)
GrantOrder ==
    <<"fetchIdl", "encryptZero", "burnInstruction", "getLatestBlockhash",
      "signTransaction(simTx)", "simulateTransaction", "burnTransaction",
      "getLatestBlockhash", "signTransaction(finalTx)", "sendRawTransaction",
      "confirmTransaction", "wait">>
SimulatePos == 6
SendPos == 10

\* what simulateTransaction resolves with
NoSim == [kind |-> "none", err |-> FALSE, data |-> FALSE, handle |-> "0"]
SimOutcomes == [kind : {"ok"}, err : BOOLEAN, data : BOOLEAN, handle : HandleValues]

SimFailedNever(sim) == FALSE
\* simulation.value.err (940)
SimFailed(sim) == sim.err

NoGrant == [kind |-> "none", value |-> "", message |-> Msg("", "")]
GrantThrown(message) == [NoGrant EXCEPT !.kind = "throw", !.message = message]
GrantReturned(value) == [NoGrant EXCEPT !.kind = "return", !.value = value]

\* grantDecryptAccess settled: ensureDecryptAccess returns true, or false from its catch
GrantEnds(out) ==
    /\ gOut' = out
    /\ gPc' = 0
    /\ gAccess' = IF out.kind = "throw" THEN "false" ELSE "true"

\* grantDecryptAccess goes on to its next awaited call
GrantGoesOn ==
    /\ gPc' = gPc + 1
    /\ gLog' = Append(gLog, GrantOrder[gPc + 1])
    /\ UNCHANGED <<gOut, gAccess>>

\* ensureDecryptAccess (1006-1032): reads the account and the allowance PDA, and calls
\* grantDecryptAccess when the handle is non-zero and has no allowance PDA
ensureDecryptAccess ==
    /\ gPc = -1
    /\ IF ~gAccount.exists THEN gAccess' = "false" /\ gPc' = 0 /\ UNCHANGED gLog
       ELSE IF gAccount.handle = "0" \/ gAccount.pda
       THEN gAccess' = "true" /\ gPc' = 0 /\ UNCHANGED gLog
       ELSE gPc' = 1 /\ gLog' = <<GrantOrder[1]>> /\ UNCHANGED gAccess
    /\ UNCHANGED <<gWallet, gAccount, gSim, gPda, gSig, gOut, decryptVars,
                   quoteVars, faucetVars, uiVars, ensureVars, swapTxVars>>

\* the call grantDecryptAccess awaits settles (896-998)
GrantStep ==
    /\ gPc \in 1..Len(GrantOrder)
    /\ \/ \* the awaited call rejects
          /\ \E m \in FailMsgs : GrantEnds(GrantThrown(Msg(m, "")))
          /\ gLog' = gLog
          /\ UNCHANGED <<gSim, gPda, gSig>>
       \/ /\ gPc = SimulatePos
          /\ \E sim \in SimOutcomes :
                /\ gSim' = sim
                /\ IF SimFailed(sim)
                   THEN /\ GrantEnds(GrantThrown(Msg("Simulation failed: ", "err")))
                        /\ UNCHANGED <<gLog, gPda>>
                   ELSE IF ~sim.data
                   THEN /\ GrantEnds(GrantThrown(Msg("No account data in simulation result", "")))
                        /\ UNCHANGED <<gLog, gPda>>
                   ELSE IF sim.handle = "0"
                   THEN /\ GrantEnds(GrantReturned(""))
                        /\ UNCHANGED <<gLog, gPda>>
                   ELSE /\ gPda' = getAllowancePda(sim.handle, gWallet)
                        /\ GrantGoesOn
          /\ UNCHANGED gSig
       \/ /\ gPc = SendPos
          /\ \E sig \in Sigs : gSig' = sig
          /\ GrantGoesOn
          /\ UNCHANGED <<gSim, gPda>>
       \/ /\ gPc \notin {SimulatePos, SendPos, Len(GrantOrder)}
          /\ GrantGoesOn
          /\ UNCHANGED <<gSim, gPda, gSig>>
       \/ /\ gPc = Len(GrantOrder)
          /\ GrantEnds(GrantReturned(gSig))
          /\ gLog' = gLog
          /\ UNCHANGED <<gSim, gPda, gSig>>
    /\ UNCHANGED <<gWallet, gAccount, decryptVars,
                   quoteVars, faucetVars, uiVars, ensureVars, swapTxVars>>

InitGrantIdle ==
    /\ gWallet = ""
    /\ gAccount = NoAccountInfo
    /\ gPc = 0
    /\ gLog = << >>
    /\ gSim = NoSim
    /\ gPda = NoPda
    /\ gSig = ""
    /\ gOut = NoGrant
    /\ gAccess = "none"

InitEnsureIdle ==
    /\ eWallet = "me"
    /\ eFaucet = NoBody("network")
    /\ eLedger = [kind |-> "fail", accounts |-> << >>]
    /\ ePc = "done"
    /\ eStatus = << >>
    /\ eOut = NoOut

InitQuoteIdle ==
    /\ qArgs = [amountIn |-> 0, reserveIn |-> 0, reserveOut |-> 0, feeBps |-> << >>]
    /\ qRes = NoQuote

InitFaucetIdle ==
    /\ now = StartTime
    /\ rateLimitMap = << >>
    /\ req = [r \in ReqIds |-> NoReq]
    /\ accepted = {}
    /\ rejectedSince = {}
    /\ calls = 0
    /\ resp = NoReq
    /\ accts = << >>

InitQuote ==
    /\ InitDecryptIdle
    /\ InitGrantIdle
    /\ InitSwapTxIdle
    /\ qArgs \in [amountIn : AmountIns, reserveIn : Reserves, reserveOut : Reserves,
                  feeBps : FeeArgs]
    /\ qRes = NoQuote
    /\ InitFaucetIdle
    /\ InitUIIdle
    /\ InitEnsureIdle

NextQuote == QuoteCall

SpecQuote == InitQuote /\ [][NextQuote]_vars

InitFaucet ==
    /\ InitDecryptIdle
    /\ InitGrantIdle
    /\ InitSwapTxIdle
    /\ InitQuoteIdle
    /\ InitUIIdle
    /\ InitEnsureIdle
    /\ now = StartTime
    /\ rateLimitMap = << >>
    /\ req = [r \in ReqIds |-> NoReq]
    /\ accepted = {}
    /\ rejectedSince = {}
    /\ calls = 0
    /\ resp = NoReq
    /\ accts = << >>

NextFaucet ==
    \/ \E r \in ReqIds : Receive(r)
    \/ \E r \in ReqIds : Validate(r)
    \/ \E r \in ReqIds : Lookup(r)
    \/ \E r \in ReqIds, m \in Mints : CreateAccount(r, m)
    \/ \E r \in ReqIds, m \in Mints : ReplaceCorrupted(r, m)
    \/ \E r \in ReqIds, m \in Mints : MintBlock(r, m)

SpecFaucet == InitFaucet /\ [][NextFaucet]_vars

\* the component tree right after mounting, with either UI
InitUI ==
    /\ InitDecryptIdle
    /\ InitGrantIdle
    /\ InitSwapTxIdle
    /\ InitQuoteIdle
    /\ InitFaucetIdle
    /\ InitEnsureIdle
    /\ mounted \in {"hook", "page"}
    /\ connected = FALSE
    /\ publicKey = ""
    /\ confirmedSigs = {}
    /\ swapState = IdleState
    /\ userAccounts = NoAccounts
    /\ runs = [r \in RunIds |-> NoRun]
    /\ hookDone = NoDone
    /\ step = "idle"
    /\ statusMessage = NoMsg
    /\ txSignature = ""
    /\ amount = ""
    /\ complianceResult = "null"
    /\ complianceFor = ""
    /\ compPending = {}
    /\ privacyMode = TRUE
    /\ estimatedOutput = ""
    /\ fromToken = "SOL"
    /\ pageRun = NoPageRun

NextUI ==
    \/ \E k \in Wallets \cup {""} : WalletChange(k)
    \/ \E r \in RunIds : executeSwap(r)
    \/ \E r \in RunIds : prepareAccounts(r)
    \/ \E r \in RunIds : HookEnsure(r)
    \/ \E r \in RunIds : HookFallback(r)
    \/ \E r \in RunIds : HookStep(r)
    \/ reset
    \/ \E w \in Wallets : checkCompliance(w)
    \/ togglePrivacy
    \/ handleSwapTokens
    \/ \E a \in Amounts : setAmount(a)
    \/ handlePrivateSwap
    \/ PageStep
    \/ handleReset

SpecUI == InitUI /\ [][NextUI]_vars

\* a call of ensureUserIncoAccounts, for every faucet outcome and ledger listing
InitEnsure ==
    /\ InitDecryptIdle
    /\ InitGrantIdle
    /\ InitSwapTxIdle
    /\ InitQuoteIdle
    /\ InitFaucetIdle
    /\ InitUIIdle
    /\ eWallet = "me"
    /\ eFaucet \in FaucetOutcomes
    /\ eLedger \in Ledgers
    /\ ePc = "fetch"
    /\ eStatus = << >>
    /\ eOut = NoOut

NextEnsure == EnsureFetch \/ EnsureFallback

SpecEnsure == InitEnsure /\ [][NextEnsure]_vars

\* an amount is encrypted and swapExactIn is called with the ciphertext
InitSwapTx ==
    /\ InitDecryptIdle
    /\ InitGrantIdle
    /\ InitQuoteIdle
    /\ InitFaucetIdle
    /\ InitUIIdle
    /\ InitEnsureIdle
    /\ encAmount \in BigInts
    /\ ciphertext = NoCipher
    /\ txPc = "amount"
    /\ poolState = NullPool
    /\ rootIndex = 0
    /\ compressedProof = ""
    /\ txLog = << >>
    /\ txEnv = [pool |-> NoRpc, proof |-> NoProof]
    /\ txOut = TxNone

NextSwapTx == encryptAmount \/ swapExactIn \/ PoolSettles \/ ProofSettles \/ BuildSettles

SpecSwapTx == InitSwapTx /\ [][NextSwapTx]_vars

\* a call of decryptBalances, for every list of handles
InitDecrypt ==
    /\ InitQuoteIdle
    /\ InitFaucetIdle
    /\ InitUIIdle
    /\ InitEnsureIdle
    /\ InitSwapTxIdle
    /\ InitGrantIdle
    /\ dHandles \in SeqsUpTo(Handles, MaxHandles)
    /\ dPc = "call"
    /\ dLog = << >>
    /\ dResult = NoDecrypt
    /\ dOut = NoBalances

NextDecrypt == decryptBalances \/ DecryptSettles

SpecDecrypt == InitDecrypt /\ [][NextDecrypt]_vars

\* a call of ensureDecryptAccess, for every wallet and account
InitGrant ==
    /\ InitQuoteIdle
    /\ InitFaucetIdle
    /\ InitUIIdle
    /\ InitEnsureIdle
    /\ InitSwapTxIdle
    /\ InitDecryptIdle
    /\ gWallet \in Wallets
    /\ gAccount \in AccountInfos
    /\ gPc = -1
    /\ gLog = << >>
    /\ gSim = NoSim
    /\ gPda = NoPda
    /\ gSig = ""
    /\ gOut = NoGrant
    /\ gAccess = "none"

NextGrant == ensureDecryptAccess \/ GrantStep

SpecGrant == InitGrant /\ [][NextGrant]_vars

(***************************************************************************)
(* Claims about the faucet's rate limiter                                  *)
(***************************************************************************)
\* request r runs the validation block in this step, with a wallet field
Validates(r) == req[r].pc = "json" /\ req'[r].pc # "json" /\ req[r].wallet # ""

TimesOf(acc, w) == {a[2] : a \in {b \in acc : b[1] = w}}
AcceptedAt(w) == TimesOf(accepted, w)

\* C1: once a call for wallet w was accepted at time t, every later call for w
\* arriving at t' with t' - t < 60000 ms is answered 429 and does no account
\* lookup, account creation or minting.
C1_RejectWithinWindow ==
    [][\A r \in ReqIds :
          (Validates(r) /\ \E t \in AcceptedAt(req[r].wallet) : now' - t < 60000)
          => /\ resp'.status = 429
             /\ resp'.wallet = req[r].wallet
             /\ resp'.ops = {}
             /\ req'[r] = NoReq
             /\ accts' = accts
             /\ rateLimitMap' = rateLimitMap]_vars

\* a call was rejected 59999 ms after an accepted call of the same wallet
C1_Witness ==
    /\ resp.status = 429
    /\ resp.ops = {}
    /\ \E t \in AcceptedAt(resp.wallet) : now - t = 59999

\* C2: a call for w arriving 60000 ms or more after the last accepted call for w
\* passes the rate-limit check, however many calls for w were rejected in between.
C2_AcceptAfterWindow ==
    [][\A r \in ReqIds :
          LET w == req[r].wallet
          IN  (/\ Validates(r)
               /\ AcceptedAt(w) # {}
               /\ \A t \in AcceptedAt(w) : now' - t >= 60000)
              => /\ now' \in TimesOf(accepted', w)
                 /\ LastCall(rateLimitMap', w) = now'
                 /\ \/ req'[r].pc = "lookup"
                    \/ req'[r] = NoReq /\ resp'.status = 500 /\ w \notin ValidWallets]_vars

\* a call was accepted exactly 60000 ms after the previous accepted call of the
\* wallet, with a rejected call in between
C2_Witness ==
    \E a \in accepted :
        /\ a[3]
        /\ a[2] - 60000 \in AcceptedAt(a[1])

(***************************************************************************)
(* Claims about computeSwapQuote                                           *)
(***************************************************************************)
QuoteDone == qRes.kind # "none"
FeeBpsOf(arg) == IF arg = << >> THEN 30 ELSE arg[1]

\* C5: amountOut = 0 and feeAmount = 0 whenever reserveIn = 0 or reserveOut = 0,
\* for every amountIn and feeBps.
C5_ZeroReserves ==
    (QuoteDone /\ (qArgs.reserveIn = 0 \/ qArgs.reserveOut = 0))
    => qRes = [kind |-> "ok", amountOut |-> 0, feeAmount |-> 0]

\* a quote over an empty output side only, for a positive amount
C5_Witness ==
    /\ QuoteDone
    /\ qArgs.reserveIn > 0 /\ qArgs.reserveOut = 0 /\ qArgs.amountIn > 0
    /\ qRes.amountOut = 0

\* the quote of a larger amount, same reserves and fee
QuoteOf(a) == computeSwapQuote(a, qArgs.reserveIn, qArgs.reserveOut, qArgs.feeBps)

\* C6 as stated: for positive reserves and any fixed feeBps, amountOut is
\* non-decreasing in the non-negative amountIn.
C6_MonotoneAnyFee ==
    (QuoteDone /\ qArgs.reserveIn > 0 /\ qArgs.reserveOut > 0 /\ qArgs.amountIn >= 0)
    => \A a \in AmountIns :
          a > qArgs.amountIn
          => /\ qRes.kind = "ok"
             /\ QuoteOf(a).kind = "ok"
             /\ qRes.amountOut <= QuoteOf(a).amountOut

\* C6 amended: for positive reserves and a fixed feeBps <= 10000, amountOut is
\* non-decreasing in the non-negative amountIn.
C6_Monotone ==
    (/\ QuoteDone
     /\ qArgs.reserveIn > 0 /\ qArgs.reserveOut > 0 /\ qArgs.amountIn >= 0
     /\ FeeBpsOf(qArgs.feeBps) <= 10000)
    => \A a \in AmountIns :
          a > qArgs.amountIn
          => /\ qRes.kind = "ok"
             /\ QuoteOf(a).kind = "ok"
             /\ qRes.amountOut <= QuoteOf(a).amountOut

\* a larger amount is quoted a strictly larger output, with a fee taken
C6_Witness ==
    /\ QuoteDone
    /\ qArgs.reserveIn > 0 /\ qArgs.reserveOut > 0 /\ qArgs.amountIn > 0
    /\ FeeBpsOf(qArgs.feeBps) = 30
    /\ qRes.feeAmount > 0
    /\ \E a \in AmountIns : a > qArgs.amountIn /\ qRes.amountOut < QuoteOf(a).amountOut

\* the standard constant-product quote, with floor division
StdFee == FloorDiv(qArgs.amountIn * FeeBpsOf(qArgs.feeBps), 10000)
StdNetIn == qArgs.amountIn - StdFee
IsStdQuote ==
    /\ qArgs.reserveIn + StdNetIn # 0
    /\ qRes.kind = "ok"
    /\ qRes.feeAmount = StdFee
    /\ qRes.amountOut = FloorDiv(qArgs.reserveOut * StdNetIn, qArgs.reserveIn + StdNetIn)

\* C7 as stated: for positive reserves the quote is the standard one, for every
\* amountIn and feeBps.
C7_StandardAnyInput ==
    (QuoteDone /\ qArgs.reserveIn > 0 /\ qArgs.reserveOut > 0) => IsStdQuote

\* C7 amended: for positive reserves, amountIn >= 0 and 0 <= feeBps <= 10000 the
\* quote is the standard one: feeAmount = floor(amountIn * feeBps / 10000),
\* netIn = amountIn - feeAmount, amountOut = floor(reserveOut * netIn /
\* (reserveIn + netIn)), with feeBps = 30 when omitted.
C7_Standard ==
    (/\ QuoteDone
     /\ qArgs.reserveIn > 0 /\ qArgs.reserveOut > 0
     /\ qArgs.amountIn >= 0
     /\ FeeBpsOf(qArgs.feeBps) >= 0 /\ FeeBpsOf(qArgs.feeBps) <= 10000)
    => IsStdQuote

\* the caller omits feeBps; a fee is taken and an output quoted
C7_Witness ==
    /\ QuoteDone
    /\ qArgs.feeBps = << >>
    /\ qArgs.reserveIn > 0
    /\ qRes.feeAmount > 0 /\ qRes.amountOut > 0

\* C15: the rate-limit table has no eviction: an address with an entry keeps
\* an entry in every later state, and an entry appears or changes only in a
\* step in which a call for that same address passes validation, which sets it
\* to the time of that call; entries of other addresses are left alone.
C15_NoEviction ==
    [][/\ DOMAIN rateLimitMap \subseteq DOMAIN rateLimitMap'
       /\ \A w \in DOMAIN rateLimitMap' :
            (w \notin DOMAIN rateLimitMap \/ rateLimitMap'[w] # rateLimitMap[w])
            => \E r \in ReqIds : /\ Validates(r)
                                 /\ req[r].wallet = w
                                 /\ rateLimitMap'[w] = now']_vars

C15_Witness ==
    /\ DOMAIN rateLimitMap = {"w1", "bad"}
    /\ Cardinality({a \in accepted : a[1] = "w1"}) >= 2

(***************************************************************************)
(* Claims about the faucet's response                                      *)
(***************************************************************************)
\* a success response names an account for each mint
SuccessHasBothTokens == resp.status = 200 => resp.tokenA # 0 /\ resp.tokenB # 0

\* the account the last response names for mint m is funded: a non-zero
\* balance handle with the wallet's allowance PDA
Funded(m) == accts[Tok(resp, m)].st = "ok"

\* C12: every faucet response with success = true names a tokenA and a tokenB
\* account, and each of them is funded: it did not need minting or the mint of
\* this call succeeded.
C12_SuccessMeansFunded ==
    resp.status = 200 => /\ resp.tokenA # 0
                         /\ resp.tokenB # 0
                         /\ \A m \in Mints : Funded(m)

(***************************************************************************)
(* Claims about useIncoSwap and the page                                   *)
(***************************************************************************)
StatusOrder == <<"preparing", "confirming", "signing", "sending", "success">>
Follows(a, b) == \E i \in 1..(Len(StatusOrder) - 1) : StatusOrder[i] = a /\ StatusOrder[i + 1] = b
SwapInFlight(r) == runs[r].kind = "swap" /\ runs[r].pc # "none"
\* the invocation in slot r returns in this step after a failed call
Fails(r) == runs[r].pc # "none" /\ runs'[r].pc = "none" /\ hookDone'.failure # ""
\* the executeSwap in slot r is under way in this step and no call of it fails in it
Proceeds(r) == SwapInFlight(r) /\ ~Fails(r)

\* The statuses one executeSwap invocation writes itself are a run of the
\* enumeration order, from 'preparing' (accounts not cached) or 'confirming'.
SwapTrailInOrder ==
    \A r \in RunIds :
        SwapInFlight(r) =>
            LET first == IF runs[r].cached THEN 2 ELSE 1
            IN  runs[r].trail = SubSeq(StatusOrder, first, first + Len(runs[r].trail) - 1)

\* C3: while an executeSwap call whose external calls all succeed is under way,
\* swapState.status starts at 'preparing' (accounts not cached) or 'confirming'
\* and every change of it is a move to the next status of the order preparing,
\* confirming, signing, sending, success; 'idle' and 'error' never appear.
C3_StatusOrder ==
    [][\A r \in RunIds :
          /\ (runs[r].pc = "none" /\ runs'[r].pc # "none" /\ runs'[r].kind = "swap")
                => swapState'.status = IF runs'[r].cached THEN "confirming" ELSE "preparing"
          /\ Proceeds(r)
                => \/ swapState'.status = swapState.status
                   \/ Follows(swapState.status, swapState'.status)]_vars

InMessage(state, m) == state.message[2] = m

\* C4 as stated: whenever an external call of executeSwap or prepareAccounts
\* fails, the resulting swapState has status 'error' and its message contains
\* the failure's message.
C4_MessageContainsFailure ==
    [][\A r \in RunIds :
          Fails(r) => /\ swapState'.status = "error"
                      /\ InMessage(swapState', hookDone'.failure)]_vars

\* C4, amended: whenever an external call of executeSwap or prepareAccounts
\* fails, the resulting swapState has status 'error' and carries the failure's
\* message: inside message for a failed account setup, and as the error field
\* (beside the message 'Swap failed') for a failure in executeSwap's try block.
C4_ErrorCarriesFailure ==
    [][\A r \in RunIds :
          Fails(r) => /\ swapState'.status = "error"
                      /\ IF runs[r].pc \in SwapPcs
                         THEN /\ swapState'.error = hookDone'.failure
                              /\ swapState'.message = Msg("Swap failed", "")
                         ELSE InMessage(swapState', hookDone'.failure)]_vars

C4_Witness ==
    /\ hookDone.kind = "swap"
    /\ hookDone.failure \in FailMsgs
    /\ swapState.status = "error"
    /\ swapState.error = hookDone.failure
    /\ swapState.message = Msg("Swap failed", "")

HookInFlight == {r \in RunIds : runs[r].pc # "none"}

\* the page's handler runs only while its button is disabled
PageGuarded == pageRun.pc # "none" => ~canSwap

\* C8: at most one user action is in flight at a time: while one executeSwap,
\* prepareAccounts or handlePrivateSwap awaits an external call, no second one
\* is under way or can be started.
C8_OneActionInFlight ==
    /\ Cardinality(HookInFlight) <= 1
    /\ PageGuarded

SwapCallOrder ==
    <<"swapExactIn", "getLatestBlockhash", "signTransaction", "sendRawTransaction",
      "confirmTransaction">>
IsSwapCall(c) == \E i \in 1..Len(SwapCallOrder) : SwapCallOrder[i] = c
IsPrefix(s, t) == Len(s) <= Len(t) /\ s = SubSeq(t, 1, Len(s))
\* the calls of a swap proper, in the order they were started
SwapCalls(log) == SelectSeq(log, IsSwapCall)

\* C9: within one swap (hook or page) the external calls are started one at a
\* time in the order swapExactIn, getLatestBlockhash, signTransaction,
\* sendRawTransaction, confirmTransaction, so nothing is sent before the wallet
\* signed, and the UI shows success only with a signature whose
\* confirmTransaction has returned.
C9_Sequential ==
    /\ \A r \in RunIds : SwapInFlight(r) => IsPrefix(SwapCalls(runs[r].log), SwapCallOrder)
    /\ \A r \in RunIds : runs[r].pc = "confirm" => SwapCalls(runs[r].log) = SwapCallOrder
    /\ pageRun.pc # "none" => IsPrefix(SwapCalls(pageRun.log), SwapCallOrder)
    /\ pageRun.pc = "confirm" => SwapCalls(pageRun.log) = SwapCallOrder
    /\ swapState.status = "success" => swapState.txSignature \in confirmedSigs
    /\ step = "complete" => txSignature \in confirmedSigs

C9_Witness ==
    /\ hookDone.kind = "swap"
    /\ hookDone.failure = ""
    /\ swapState.status = "success"
    /\ swapState.txSignature \in confirmedSigs

\* C11: executeSwap and prepareAccounts never reject: when an external call of
\* an invocation fails, the invocation ends there with no call outstanding (so
\* nothing is signed, sent or confirmed after the failure), status is 'error'
\* and executeSwap resolves to null.
C11_FailureEndsOperation ==
    [][\A r \in RunIds :
          /\ Fails(r) => /\ runs'[r] = NoRun
                         /\ swapState'.status = "error"
                         /\ hookDone'.result # "rejected"
                         /\ runs[r].kind = "swap" => hookDone'.result = "null"
          /\ (runs[r].pc # "none" /\ runs'[r].pc = "none") => hookDone'.result # "rejected"]_vars

C11_Witness ==
    /\ hookDone.kind = "swap"
    /\ hookDone.failure \in FailMsgs
    /\ hookDone.result = "null"
    /\ swapState.status = "error"
    /\ HookInFlight = {}

\* the user starts executeSwap or prepareAccounts in this step (an invocation
\* begins, or returns at once for want of a wallet)
StartsOperation ==
    \/ \E r \in RunIds : runs[r].pc = "none" /\ runs'[r].pc # "none"
    \/ /\ UNCHANGED runs
       /\ swapState' = updateStatus(swapState, "error", Msg("Wallet not connected", ""))

\* C13: from any state, reset() leaves swapState exactly {status: 'idle',
\* message: ''} with no txSignature and no error, and the state stays so until
\* the user starts another operation.
C13_ResetDiscards ==
    [][/\ reset => swapState' = IdleState
       /\ (swapState = IdleState /\ swapState' # IdleState) => StartsOperation]_vars

\* the account setup of the invocation in slot r succeeds in this step
SetupSucceeds(r) ==
    /\ runs[r].pc \in {"ensure", "fallback"}
    /\ \/ runs'[r].pc = "build"
       \/ runs[r].kind = "prepare" /\ runs'[r].pc = "none" /\ hookDone'.failure = ""

\* both cached addresses are present
Populated(a) == a.tokenA # "" /\ a.tokenB # ""

\* C14: the cached account addresses change only in a step in which an account
\* setup (of prepareAccounts or inside executeSwap) succeeds; once populated
\* they stay populated through reset, failed setups and swaps; and an
\* executeSwap started with both addresses cached goes straight to the swap
\* without an account-setup call.
C14_AccountsCache ==
    [][/\ userAccounts' # userAccounts
            => Populated(userAccounts') /\ \E r \in RunIds : SetupSucceeds(r)
       /\ Populated(userAccounts) => Populated(userAccounts')
       /\ \A r \in RunIds :
            (runs[r].pc = "none" /\ runs'[r].pc # "none" /\ runs'[r].kind = "swap"
                /\ Populated(userAccounts))
            => /\ runs'[r].pc = "build"
               /\ runs'[r].log = <<"swapExactIn">>]_vars

C14_Witness ==
    /\ Populated(userAccounts)
    /\ hookDone.kind = "swap"
    /\ hookDone.failure \in FailMsgs
    /\ swapState = IdleState
    /\ \E r \in RunIds : runs[r].cached /\ runs[r].pc = "confirm"

\* the masked placeholder the README documents for Hidden mode
MaskedPlaceholder == <<"", "(masked)">>
\* the field renders the estimated amount
ShowsEstimate == estimatedOutput # "" /\ YouReceive.text[2] = estimatedOutput

\* C16: whenever privacy mode is Hidden and an estimated output exists, the
\* 'You Receive' field shows the masked placeholder instead of the estimate;
\* the estimate is rendered only when privacy mode is Visible.
C16_HiddenMasksEstimate ==
    /\ (privacyMode /\ estimatedOutput # "") => YouReceive.text = MaskedPlaceholder
    /\ ShowsEstimate => ~privacyMode

\* handlePrivateSwap passes its compliance step in this step
PassesCompliance == pageRun.pc \in {"none", "compliance"} /\ pageRun'.pc = "ensure"
\* the handler is past its compliance step
PastCompliance == pageRun.pc \notin {"none", "compliance"}

\* C17: handlePrivateSwap passes its compliance step only with a compliant
\* result held; with a held or freshly fetched non-compliant result, or a failed
\* compliance call, it ends in step 'error' having made no faucet or ledger
\* call.
C17_ComplianceGate ==
    [][/\ PassesCompliance => complianceResult' = "ok"
       /\ (handlePrivateSwap /\ complianceResult = "blocked")
            => step' = "error" /\ pageRun' = NoPageRun
       /\ (pageRun.pc = "compliance" /\ pageRun'.pc \notin {"compliance", "ensure"})
            => /\ step' = "error"
               /\ pageRun' = NoPageRun
               /\ pageRun.log = <<"checkAddressCompliance">>
               /\ txSignature' = txSignature
               /\ confirmedSigs' = confirmedSigs]_vars

C17_Witness ==
    /\ step = "error"
    /\ statusMessage = Msg("Swap failed: ", "Compliance check failed")
    /\ complianceResult = "blocked"
    /\ pageRun = NoPageRun
    /\ publicKey # ""

\* C18: the compliance result that lets a swap proceed was obtained for the
\* wallet the swap runs for, under any interleaving of wallet changes,
\* compliance checks settling and clicks.
C18_ResultOfConnectedWallet ==
    PastCompliance => pageRun.authFor = pageRun.wallet

(***************************************************************************)
(* Claims about ensureUserIncoAccounts                                     *)
(***************************************************************************)
\* the faucet answered success with two usable account addresses
FaucetSucceeded ==
    /\ eFaucet.kind = "json"
    /\ eFaucet.success
    /\ ValidKey(eFaucet.tokenA)
    /\ ValidKey(eFaucet.tokenB)

\* the wallet's listed Inco accounts of a mint
Holds(mint) ==
    {eLedger.accounts[i].pubkey : i \in {j \in 1..Len(eLedger.accounts) :
        /\ eLedger.accounts[j].disc
        /\ eLedger.accounts[j].owner = eWallet
        /\ eLedger.accounts[j].mint = mint}}

\* C10: when the faucet request fails, ensureUserIncoAccounts reads the
\* wallet's existing accounts: it returns an account of the wallet for each
\* mint with created = false if both exist, and throws otherwise; a returned
\* result never lacks tokenA or tokenB.
C10_FallbackOnFaucetFailure ==
    /\ (ePc = "done" /\ ~FaucetSucceeded) =>
          IF eLedger.kind = "ok" /\ Holds("A") # {} /\ Holds("B") # {}
          THEN /\ eOut.kind = "return"
               /\ ~eOut.created
               /\ eOut.tokenA \in Holds("A")
               /\ eOut.tokenB \in Holds("B")
          ELSE eOut.kind = "throw"
    /\ eOut.kind = "return" => eOut.tokenA # "" /\ eOut.tokenB # ""

C10_Witness ==
    /\ ePc = "done"
    /\ eFaucet.kind = "network"
    /\ eOut.kind = "return"
    /\ \E i \in 1..Len(eLedger.accounts) : eLedger.accounts[i].owner # eWallet

(***************************************************************************)
(* Claims about swapExactIn and encryptAmount                              *)
(***************************************************************************)
PoolListed == \E k \in 1..Len(txEnv.pool.items) : txEnv.pool.items[k].address = PoolAddress
PoolFound == txEnv.pool.kind = "ok" /\ PoolListed
ProofFailed == txEnv.proof.kind = "reject"
InstructionBuilt == \E k \in 1..Len(txLog) : txLog[k] = "instruction"
ProofRequested == \E k \in 1..Len(txLog) : txLog[k] = "getValidityProofV0"

\* C19: swapExactIn returns a transaction only when the pool's compressed account was found
\* and the validity-proof request did not fail.  When the pool is missing it throws
\* 'Pool not initialized' before any proof request; when the proof request fails it throws
\* 'Cannot get validity proof' instead of going on with the default root index and proof.
\* In both cases no instruction is built.
C19_NoTransactionWithoutPoolAndProof ==
    /\ txOut.kind = "tx" => PoolFound /\ txEnv.proof.kind \in {"null", "result"}
    /\ (txEnv.pool.kind # "none" /\ ~PoolFound) =>
          /\ txPc = "done"
          /\ txOut = TxThrown(Msg("Pool not initialized. Please initialize pool first.", ""))
          /\ ~ProofRequested
          /\ ~InstructionBuilt
    /\ ProofFailed =>
          /\ txPc = "done"
          /\ txOut = TxThrown(Msg("Cannot get validity proof: ", txEnv.proof.message))
          /\ ~InstructionBuilt

C19_Witness ==
    /\ PoolFound
    /\ ProofFailed
    /\ txOut.kind = "throw"
    /\ txLog = <<"getCompressedAccountsByOwner", "getValidityProofV0">>

RECURSIVE Strip(_)
\* the bytes without the high zero bytes: equal exactly when the values are equal
Strip(a) == IF Len(a) > 0 /\ a[Len(a)] = 0 THEN Strip(SubSeq(a, 1, Len(a) - 1)) ELSE a
Below2_128(a) == Len(Strip(a)) <= 16
Mod2_128(a) == [k \in 1..16 |-> Byte(a, k)]

\* C20: encryptAmount returns exactly 16 bytes that hold the amount as a little-endian
\* unsigned 128-bit integer: decoding them yields the amount when 0 <= amount < 2^128 and
\* the amount mod 2^128 when it is larger.
C20_LittleEndianU128 ==
    ciphertext # NoCipher =>
        /\ Len(ciphertext) = 16
        /\ \A k \in 1..16 : ciphertext[k] \in 0..255
        /\ Strip(ciphertext) =
              Strip(IF Below2_128(encAmount) THEN encAmount ELSE Mod2_128(encAmount))

C20_Witness ==
    /\ ciphertext # NoCipher
    /\ ~Below2_128(encAmount)
    /\ ciphertext[9] = 255
    /\ Strip(ciphertext) # Strip(encAmount)

\* C27: for positive reserves, amountIn >= 0 and 0 <= feeBps <= 10000 the quote never
\* empties the pool and never lowers the constant product: 0 <= feeAmount <= amountIn,
\* 0 <= amountOut < reserveOut and
\* (reserveIn + amountIn - feeAmount) * (reserveOut - amountOut) >= reserveIn * reserveOut.
C27_NoLoss ==
    (/\ QuoteDone
     /\ qArgs.reserveIn > 0 /\ qArgs.reserveOut > 0
     /\ qArgs.amountIn >= 0
     /\ FeeBpsOf(qArgs.feeBps) >= 0 /\ FeeBpsOf(qArgs.feeBps) <= 10000)
    => /\ qRes.kind = "ok"
       /\ 0 <= qRes.feeAmount /\ qRes.feeAmount <= qArgs.amountIn
       /\ 0 <= qRes.amountOut /\ qRes.amountOut < qArgs.reserveOut
       /\ (qArgs.reserveIn + qArgs.amountIn - qRes.feeAmount)
             * (qArgs.reserveOut - qRes.amountOut) >= qArgs.reserveIn * qArgs.reserveOut

C27_Witness ==
    /\ QuoteDone
    /\ qArgs.reserveIn > 0 /\ qArgs.reserveOut > 0
    /\ FeeBpsOf(qArgs.feeBps) = 30
    /\ qRes.feeAmount > 0
    /\ qRes.amountOut > 0
    /\ (qArgs.reserveIn + qArgs.amountIn - qRes.feeAmount)
          * (qArgs.reserveOut - qRes.amountOut) > qArgs.reserveIn * qArgs.reserveOut

(***************************************************************************)
(* Further claims about useIncoSwap                                        *)
(***************************************************************************)
\* C26: swapState.txSignature is present only while status is 'success' and
\* swapState.error only while status is 'error'; nothing of an earlier swap is left
\* while a later one is preparing, confirming, signing or sending.
C26_ResultFieldsMatchStatus ==
    /\ swapState.txSignature # "" => swapState.status = "success"
    /\ swapState.error # "" => swapState.status = "error"

\* the reserves a quote for direction aToB has to use: the sold token's as reserveIn
ReservesFor(aToB) ==
    IF aToB THEN [reserveIn |-> "A", reserveOut |-> "B"]
    ELSE [reserveIn |-> "B", reserveOut |-> "A"]

\* the hook's half of C28
HookQuoteMatchesDirection ==
    \A r \in RunIds : runs[r].pc \in SwapPcs => runs[r].quote = ReservesFor(runs[r].aToB)

\* C28: in every swap flow and in both directions the quote is computed with the reserve
\* of the token sold as reserveIn and that of the token bought as reserveOut, matching
\* the aToB flag passed to swapExactIn.
C28_QuoteMatchesDirection ==
    /\ HookQuoteMatchesDirection
    /\ pageRun.pc \in {"build", "blockhash", "sign", "send", "confirm"}
         => pageRun.quote = ReservesFor(pageRun.aToB)

(***************************************************************************)
(* Further claims about the faucet                                         *)
(***************************************************************************)
\* request r runs the validation block in this step
Validated(r) == req[r].pc = "json" /\ req'[r].pc # "json"
\* ... and is answered by it with the given status
AnsweredBy(r, status) == Validated(r) /\ req'[r] = NoReq /\ resp'.status = status
\* ... and gets past the rate-limit check
PassesRateLimit(r) ==
    /\ Validated(r)
    /\ ~req[r].badJson
    /\ req[r].wallet # ""
    /\ ~(req'[r] = NoReq /\ resp'.status = 429)
\* request r, past the rate-limit check, is answered 500 in this step
FailsAfterRateLimit(r) ==
    /\ req[r].pc # "none"
    /\ req'[r] = NoReq
    /\ resp'.status = 500
    /\ PassesRateLimit(r) \/ req[r].pc # "json"

\* C23: the timestamp is written before any work, so a call that passes the rate-limit
\* check and then fails (invalid wallet string, ledger error, HTTP 500) still consumes the
\* window: a retry for the same address within 60 s is answered 429.  A call answered
\* 400 (no wallet field) or 429 leaves the table unchanged.
C23_FailedCallConsumesWindow ==
    [][\A r \in ReqIds :
          /\ PassesRateLimit(r) => LastCall(rateLimitMap', req[r].wallet) = now'
          /\ FailsAfterRateLimit(r) =>
                /\ req[r].wallet \in DOMAIN rateLimitMap'
                /\ req[r].pc # "json" => rateLimitMap' = rateLimitMap
          /\ (Validated(r) /\ req[r].wallet \in DOMAIN rateLimitMap
                 /\ now' - rateLimitMap[req[r].wallet] < 60000 /\ ~req[r].badJson)
                => AnsweredBy(r, 429)
          /\ (AnsweredBy(r, 400) \/ AnsweredBy(r, 429)) => rateLimitMap' = rateLimitMap]_vars

\* a retry 59999 ms after a call for an invalid wallet string, which passed the check
\* and was answered 500, is answered 429
C23_Witness ==
    /\ resp.status = 429
    /\ resp.wallet = "bad"
    /\ now - LastCall(rateLimitMap, "bad") = 59999

\* C24: the rate-limit check and the timestamp write are atomic with respect to
\* concurrent requests: whatever the interleaving of requests for one wallet address,
\* a request passes the check only if no other request for that address passed it
\* less than 60 s before, so at most one of those arriving within a window passes.
C24_OnePassPerWindow ==
    [][\A r \in ReqIds :
          PassesRateLimit(r) =>
              /\ \A t \in AcceptedAt(req[r].wallet) : now' - t >= 60000
              /\ \A s \in ReqIds \ {r} :
                    (req[s].pc \notin {"none", "json"} /\ req[s].wallet = req[r].wallet)
                    => \E t \in AcceptedAt(req[r].wallet) : t <= now]_vars

\* two requests for one wallet were in flight together and reached the check at the
\* same clock reading: one passed and is still running, the other was answered 429
C24_Witness ==
    \E r \in ReqIds :
        /\ req[r].pc \notin {"none", "json"}
        /\ resp.status = 429
        /\ resp.wallet = req[r].wallet
        /\ now \in AcceptedAt(req[r].wallet)

\* C25: once the wallet holds a healthy account for each mint (a replacement made for a
\* corrupted account in an earlier call included), a later accepted call creates no
\* account, mints nothing and returns healthy accounts, whatever the listing order.
C25_IdempotentOnHealthyState ==
    [][\A r \in ReqIds :
          (req[r].healthy /\ req'[r] # req[r]) =>
              /\ accts' = accts
              /\ (req'[r] = NoReq /\ resp'.status = 200) =>
                    /\ resp'.ops \cap {"create", "mint"} = {}
                    /\ accts[resp'.tokenA].st = "ok"
                    /\ accts[resp'.tokenB].st = "ok"]_vars

(***************************************************************************)
(* Claims about decryptBalances and grantDecryptAccess                     *)
(***************************************************************************)
\* the number of non-zero handles among the first k handles
NonZeroUpTo(handles, k) == Cardinality({j \in 1..k : handles[j] # "0"})

\* C21: decryptBalances returns a list of the length and order of the handles, with '0'
\* at every position whose handle is '0' and the plaintext of the i-th non-zero handle
\* at the position of that handle; when every handle is '0' it makes no decryption
\* request and asks for no wallet signature.
C21_BalancesInHandleOrder ==
    /\ dOut.kind = "return" =>
          /\ Len(dOut.values) = Len(dHandles)
          /\ \A k \in 1..Len(dHandles) :
                IF dHandles[k] = "0" THEN dOut.values[k] = "0"
                ELSE /\ dResult.kind = "ok"
                     /\ dOut.values[k] = dResult.plaintexts[NonZeroUpTo(dHandles, k)]
    /\ (dPc # "call" /\ \A k \in 1..Len(dHandles) : dHandles[k] = "0") =>
          /\ dLog = << >>
          /\ dOut.kind = "return"

\* a zero handle between two non-zero ones: the plaintexts land around the '0'
C21_Witness ==
    /\ dHandles = <<"h1", "0", "h2">>
    /\ dOut.kind = "return"
    /\ dOut.values = <<"5", "0", "7">>
    /\ dLog = <<"decrypt", "signMessage">>

Started(log, call) == \E k \in 1..Len(log) : log[k] = call
SimulationGood == gSim.kind = "ok" /\ ~gSim.err /\ gSim.data /\ gSim.handle # "0"

\* C22: grantDecryptAccess follows simulate -> derive PDA -> execute: the real burn(0)
\* transaction is signed and sent only after the simulation succeeded and returned
\* account data with a non-zero new handle, and its allowance PDA is derived from that
\* handle and the wallet; a simulation error or missing data makes it throw, and a zero
\* new handle makes it return '', each without sending anything.
C22_SimulateDeriveExecute ==
    /\ IsPrefix(gLog, GrantOrder)
    /\ (Started(gLog, "burnTransaction") \/ Started(gLog, "signTransaction(finalTx)")
          \/ Started(gLog, "sendRawTransaction")) =>
          /\ SimulationGood
          /\ gPda = <<gSim.handle, gWallet>>
    /\ (gSim.kind = "ok" /\ ~SimulationGood) =>
          /\ gPc = 0
          /\ gLog = SubSeq(GrantOrder, 1, 6)
          /\ gPda = NoPda
          /\ IF gSim.err \/ ~gSim.data
             THEN gOut.kind = "throw" /\ gAccess = "false"
             ELSE gOut = GrantReturned("")

\* access was granted: the transaction sent carries the PDA of the simulated handle
C22_Witness ==
    /\ gOut.kind = "return"
    /\ gOut.value \in Sigs
    /\ gLog = GrantOrder
    /\ gSim.handle = "7"
    /\ gPda = <<"7", gWallet>>
    /\ gAccess = "true"

====
